---- MODULE Spec2Model ----
(***************************************************************************)
(* Verification model of the gocryptotrader engine:                        *)
(*   - engine/helpers.go   pair relatability helpers (pure functions)      *)
(*   - engine/routines.go  ticker / orderbook polling loops                *)
(*   - engine/routines.go  websocket supervisory goroutines and shutdown   *)
(* Three specifications share one set of variables:                        *)
(*   SpecPairs  applies the pure helpers to bounded inputs                 *)
(*   Spec       the two polling loops running concurrently                 *)
(*   SpecWS     the websocket goroutines and Websocketshutdown             *)
(***************************************************************************)
EXTENDS Integers, Sequences, FiniteSets, TLC

VARIABLES
    \* ---- helpers.go queries (SpecPairs) ----
    qpc,        \* "input" | "relatable" | "isrelatable"
    qP1,        \* first pair argument
    qP2,        \* second pair argument
    qIncOrig,   \* incOrig argument
    qIncUSDT,   \* incUSDT / includeUSDT argument
    rPairs,     \* result of GetRelatableCurrencies(qP1, qIncOrig, qIncUSDT)
    rRelatable, \* result of IsRelatablePairs(qP1, qP2, qIncUSDT)
    \* ---- routines.go polling loops (Spec) ----
    iter,       \* per loop: number of the polling iteration begun last (0 before the first)
    lpc,        \* per loop: position of the routine's for loop
    lx,         \* per loop: index x of the range over Bot.Exchanges
    wgc,        \* per loop: counter of the routine's local sync.WaitGroup
    tasks,      \* the running per-exchange goroutines
    cache,      \* per loop: the ticker / orderbook store, by exchange and pair
    log,        \* per loop: what the tasks of the current iteration did
    wsServer,   \* Bot.Config.WebsocketServer.Enabled
    exchanges,  \* Bot.Exchanges
    \* ---- routines.go websocket goroutines (SpecWS) ----
    shutdowner, \* the package-level shutdown channel: "open" | "closed"
    gwg,        \* counter of the package-level sync.WaitGroup
    hpc,        \* per websocket: position of its WebsocketDataHandler goroutine
    dpc,        \* per websocket: position of its streamDiversion goroutine
    rtasks,     \* the WebsocketReconnect goroutines, by order of creation
    served,     \* per websocket: an event was handled while a reconnect was in progress
    spc,        \* position of the Websocketshutdown call
    swho,       \* the websocket passed to Websocketshutdown
    wpc,        \* position of the goroutine Websocketshutdown starts
    chanC,      \* number of values in Websocketshutdown's channel c
    waitSaw,    \* the counter value with which wg.Wait() returned (-1 before that)
    \* ---- helpers.go aggregation over the configuration (SpecCfg) ----
    cpc,          \* "input" | "avail" | "map"
    cfgExchanges, \* Bot.Config.Exchanges
    cEnabledOnly, \* enabledExchangesOnly argument
    cPairsIn,     \* the pair list passed to MapCurrenciesByExchange
    rAvail,       \* result of GetAllAvailablePairs
    rMap,         \* result of MapCurrenciesByExchange
    \* ---- helpers.go account aggregation (SpecAcct) ----
    apc,        \* "input" | "collated" | "seeded"
    aData,      \* the []exchange.AccountInfo argument
    ledger,     \* the portfolio's exchange address entries
    ledger0,    \* the ledger before SeedExchangeAccountInfo
    rCollated,  \* result of GetCollatedExchangeAccountInfoByCoin
    \* ---- helpers.go lookups by exchange name (SpecLookup) ----
    kpc,        \* "input" | "done"
    kFn,        \* the lookup called
    kName,      \* exchangeName argument
    kPair,      \* currency pair argument
    kRes,       \* what the lookup returned: [val, err]
    kLive       \* number of live exchange calls the lookup made

pairVars == <<qpc, qP1, qP2, qIncOrig, qIncUSDT, rPairs, rRelatable>>

pollVars == <<iter, lpc, lx, wgc, tasks, cache, log, wsServer, exchanges>>

wsVars == <<shutdowner, gwg, hpc, dpc, rtasks, served, spc, swho, wpc, chanC, waitSaw>>

cfgVars == <<cpc, cfgExchanges, cEnabledOnly, cPairsIn, rAvail, rMap>>

acctVars == <<apc, aData, ledger, ledger0, rCollated>>

lookVars == <<kpc, kFn, kName, kPair, kRes, kLive>>

auxVars == <<cfgVars, acctVars, lookVars>>

vars == <<qpc, qP1, qP2, qIncOrig, qIncUSDT, rPairs, rRelatable,
          iter, lpc, lx, wgc, tasks, cache, log, wsServer, exchanges,
          shutdowner, gwg, hpc, dpc, rtasks, served, spc, swho, wpc, chanC, waitSaw,
          cpc, cfgExchanges, cEnabledOnly, cPairsIn, rAvail, rMap,
          apc, aData, ledger, ledger0, rCollated,
          kpc, kFn, kName, kPair, kRes, kLive>>

\* no configuration query has been made
CfgIdle ==
    /\ cpc = "input"
    /\ cfgExchanges = <<>>
    /\ cEnabledOnly = FALSE
    /\ cPairsIn = <<>>
    /\ rAvail = <<>>
    /\ rMap = <<>>

\* no account query has been made
AcctIdle ==
    /\ apc = "input"
    /\ aData = <<>>
    /\ ledger = <<>>
    /\ ledger0 = <<>>
    /\ rCollated = <<>>

\* no lookup has been made
LookIdle ==
    /\ kpc = "input"
    /\ kFn = ""
    /\ kName = ""
    /\ kPair = ""
    /\ kRes = <<>>
    /\ kLive = 0

(***************************************************************************)
(* currency / pair / translation packages                                  *)
(***************************************************************************)

\* Currency symbols of the model (all upper case).
Currencies == {"BTC", "XBT", "LTC", "USD", "USDT", "AUD"}

\* currency.FiatCurrencies, in configured order
FiatCurrencies == <<"USD", "AUD">>

\* currency.CryptoCurrencies, in configured order
CryptoCurrencies == <<"BTC", "LTC">>

\* pair.NewCurrencyPair(first, second)
NewCurrencyPair(first, second) == [FirstCurrency |-> first, SecondCurrency |-> second]

AllPairs == {NewCurrencyPair(a, b) : a \in Currencies, b \in Currencies}

\* pair.CurrencyPair.Swap
Swap(p) == NewCurrencyPair(p.SecondCurrency, p.FirstCurrency)

\* pair.CurrencyPair.Equal(p, exact): strict order when exact, either order otherwise
Equal(c, p, exact) ==
    \/ (c.FirstCurrency = p.FirstCurrency /\ c.SecondCurrency = p.SecondCurrency)
    \/ (~exact /\ c.FirstCurrency = p.SecondCurrency /\ c.SecondCurrency = p.FirstCurrency)

\* pair.Contains(pairs, p, exact)
Contains(pairs, p, exact) == \E i \in 1..Len(pairs) : Equal(pairs[i], p, exact)

\* pair.ContainsCurrency(p, c)
ContainsCurrency(p, c) == p.FirstCurrency = c \/ p.SecondCurrency = c

\* pair.RemovePairsByFilter(pairs, filter): keeps, in order, the pairs without the currency
RemovePairsByFilter(pairs, filter) == SelectSeq(pairs, LAMBDA p : ~ContainsCurrency(p, filter))

\* translation table: symbol equivalences, looked up in both directions
Translations == {<<"BTC", "XBT">>, <<"USD", "USDT">>}

\* translation.GetTranslation(c): [err, val]
GetTranslation(c) ==
    IF \E t \in Translations : t[1] = c
    THEN [err |-> FALSE, val |-> (CHOOSE t \in Translations : t[1] = c)[2]]
    ELSE IF \E t \in Translations : t[2] = c
    THEN [err |-> FALSE, val |-> (CHOOSE t \in Translations : t[2] = c)[1]]
    ELSE [err |-> TRUE, val |-> ""]

\* the elements of a sequence
Range(s) == {s[i] : i \in 1..Len(s)}

InSeq(s, x) == \E i \in 1..Len(s) : s[i] = x

\* currency.IsCryptocurrency / currency.IsFiatCurrency
IsCryptocurrency(c) == InSeq(CryptoCurrencies, c)

IsFiatCurrency(c) == InSeq(FiatCurrencies, c)

\* currency.IsCryptoFiatPair(p)
IsCryptoFiatPair(p) ==
    \/ (IsCryptocurrency(p.FirstCurrency) /\ IsFiatCurrency(p.SecondCurrency))
    \/ (IsFiatCurrency(p.FirstCurrency) /\ IsCryptocurrency(p.SecondCurrency))

(***************************************************************************)
(* engine/helpers.go                                                       *)
(***************************************************************************)

\* addPair closure of GetRelatableCurrencies (helpers.go:184-189)
addPair(pairs, p) == IF Contains(pairs, p, TRUE) THEN pairs ELSE Append(pairs, p)

\* a buildPairs that never seeds the supplied pair
buildPairs_NoSeed(pairs, p, incOrig) ==
    LET first  == GetTranslation(p.FirstCurrency)
        second == GetTranslation(p.SecondCurrency)
        s1 == IF ~first.err
              THEN addPair(pairs, NewCurrencyPair(first.val, p.SecondCurrency))
              ELSE pairs
        s2 == IF ~first.err /\ ~second.err
              THEN addPair(s1, NewCurrencyPair(first.val, second.val))
              ELSE s1
    IN  IF ~second.err
        THEN addPair(s2, NewCurrencyPair(p.FirstCurrency, second.val))
        ELSE s2

\* buildPairs closure of GetRelatableCurrencies (helpers.go:191-213)
buildPairs(pairs, p, incOrig) ==
    LET first  == GetTranslation(p.FirstCurrency)
        second == GetTranslation(p.SecondCurrency)
        s0 == IF incOrig THEN addPair(pairs, p) ELSE pairs
        s1 == IF ~first.err
              THEN addPair(s0, NewCurrencyPair(first.val, p.SecondCurrency))
              ELSE s0
        s2 == IF ~first.err /\ ~second.err
              THEN addPair(s1, NewCurrencyPair(first.val, second.val))
              ELSE s1
        s3 == IF ~second.err
              THEN addPair(s2, NewCurrencyPair(p.FirstCurrency, second.val))
              ELSE s2
    IN  s3

\* a GetRelatableCurrencies that filters the USDT pairs whatever incUSDT says
GetRelatableCurrencies_AlwaysFilters(p, incOrig, incUSDT) ==
    RemovePairsByFilter(buildPairs(buildPairs(<<>>, p, incOrig), Swap(p), incOrig), "USDT")

\* GetRelatableCurrencies (helpers.go:181-223)
GetRelatableCurrencies(p, incOrig, incUSDT) ==
    LET a == buildPairs(<<>>, p, incOrig)
        b == buildPairs(a, Swap(p), incOrig)
    IN  IF ~incUSDT THEN RemovePairsByFilter(b, "USDT") ELSE b

RECURSIVE FiatLoop(_, _, _)
\* loop body of GetRelatableFiatCurrencies over fiatCurrencies[x..]
FiatLoop(pairs, p, x) ==
    IF x > Len(FiatCurrencies) THEN pairs
    ELSE LET newPair == NewCurrencyPair(p.FirstCurrency, FiatCurrencies[x])
         IN  IF Contains(pairs, newPair, FALSE)
             THEN FiatLoop(pairs, p, x + 1)
             ELSE FiatLoop(Append(pairs, newPair), p, x + 1)

\* GetRelatableFiatCurrencies (helpers.go:164-176)
GetRelatableFiatCurrencies(p) == FiatLoop(<<>>, p, 1)

\* a loop that appends nothing
ExpandLoop_NoFiat(relatablePairs, x, n) == relatablePairs

RECURSIVE ExpandLoop(_, _, _)
\* the range loop of IsRelatablePairs (helpers.go:83-85): the range expression is
\* evaluated once, so x runs over the first n elements while the slice grows
ExpandLoop(relatablePairs, x, n) ==
    IF x > n THEN relatablePairs
    ELSE ExpandLoop(relatablePairs \o GetRelatableFiatCurrencies(relatablePairs[x]), x + 1, n)

\* IsRelatablePairs (helpers.go:74-88)
IsRelatablePairs(p1, p2, includeUSDT) ==
    IF Equal(p1, p2, FALSE) THEN TRUE
    ELSE LET relatablePairs == GetRelatableCurrencies(p1, TRUE, includeUSDT)
             expanded == IF IsCryptoFiatPair(p1)
                         THEN ExpandLoop(relatablePairs, 1, Len(relatablePairs))
                         ELSE relatablePairs
         IN  Contains(expanded, p2, FALSE)

NoPair == NewCurrencyPair("", "")

(***************************************************************************)
(* engine/routines.go: websocket goroutines and Websocketshutdown          *)
(***************************************************************************)

\* the exchanges that have a websocket
Websockets == {"A", "B"}

\* number of close-1006 errors the feeds deliver
MaxClose1006 == 1

\* the payload kinds WebsocketDataHandler switches on (routines.go:381-443)
Kinds == {"string", "close1006", "error", "trade", "ticker", "kline", "orderbook", "unknown"}

\* the version a ticker written from the websocket feed carries in the store
WsTick == -1

\* the ticker pair the websocket feeds report
WsPair == "BTCUSD"

RIds == 1..MaxClose1006

\* number of reconnect goroutines of one websocket that are followed
MaxReconnects == 2

\* no websocket goroutine exists, the shutdown channel is open
WsIdle ==
    /\ shutdowner = "open"
    /\ gwg = 0
    /\ hpc = [e \in Websockets |-> "none"]
    /\ dpc = [e \in Websockets |-> "none"]
    /\ rtasks = <<>>
    /\ served = [e \in Websockets |-> FALSE]
    /\ spc = "idle"
    /\ swho = ""
    /\ wpc = "none"
    /\ chanC = 0
    /\ waitSaw = -1

(***************************************************************************)
(* engine/routines.go: TickerUpdaterRoutine and OrderbookUpdaterRoutine    *)
(***************************************************************************)

\* number of polling iterations each loop may begin
MaxIter == 2

\* the most entries Bot.Exchanges holds when exchanges are loaded at run time
MaxRegistry == 2

Loops == {"ticker", "orderbook"}

\* a nil entry of Bot.Exchanges
NilExchange == [name |-> "nil", nil |-> TRUE, enabled |-> FALSE, rest |-> FALSE,
                batching |-> FALSE, pairs |-> <<>>]

\* an exchange with REST ticker batching and two enabled pairs
ExA == [name |-> "A", nil |-> FALSE, enabled |-> TRUE, rest |-> TRUE, batching |-> TRUE,
        pairs |-> <<"BTCUSD", "LTCUSD">>]

\* exchanges without ticker batching
ExB == [name |-> "B", nil |-> FALSE, enabled |-> TRUE, rest |-> TRUE, batching |-> FALSE,
        pairs |-> <<"BTCUSD">>]

ExD == [name |-> "D", nil |-> FALSE, enabled |-> TRUE, rest |-> TRUE, batching |-> FALSE,
        pairs |-> <<"LTCUSD">>]

\* an exchange that does not support REST
ExC == [name |-> "C", nil |-> FALSE, enabled |-> TRUE, rest |-> FALSE, batching |-> FALSE,
        pairs |-> <<"BTCUSD">>]

\* a registry entry whose enabled flag is off: Setup of a disabled configuration
\* leaves the REST capability of SetDefaults in place (yobit_wrapper.go:77-79, 103-105)
ExE == [name |-> "E", nil |-> FALSE, enabled |-> FALSE, rest |-> TRUE, batching |-> FALSE,
        pairs |-> <<"BTCUSD">>]

\* the contents of Bot.Exchanges the loops are run against
RegistryChoices == {<<ExA, ExC>>, <<ExB, ExD>>, <<NilExchange, ExB>>, <<ExE, ExC>>}

ExchangeNames == {"A", "B", "C", "D", "E"}

PairNames == {"BTCUSD", "LTCUSD"}

\* the state before either routine has run: empty stores, no goroutine
PollIdle ==
    /\ iter = [l \in Loops |-> 0]
    /\ lpc = [l \in Loops |-> "add"]
    /\ lx = [l \in Loops |-> 1]
    /\ wgc = [l \in Loops |-> 0]
    /\ tasks = {}
    /\ cache = [l \in Loops |-> [e \in ExchangeNames |-> [p \in PairNames |-> 0]]]
    /\ log = [l \in Loops |-> {}]
    /\ wsServer = FALSE
    /\ exchanges = <<>>

Init ==
    /\ iter = [l \in Loops |-> 0]
    /\ lpc = [l \in Loops |-> "add"]
    /\ lx = [l \in Loops |-> 1]
    /\ wgc = [l \in Loops |-> 0]
    /\ tasks = {}
    /\ cache = [l \in Loops |-> [e \in ExchangeNames |-> [p \in PairNames |-> 0]]]
    /\ log = [l \in Loops |-> {}]
    /\ wsServer \in BOOLEAN
    /\ exchanges \in RegistryChoices
    /\ qpc = "input"
    /\ qP1 = NoPair
    /\ qP2 = NoPair
    /\ qIncOrig = FALSE
    /\ qIncUSDT = FALSE
    /\ rPairs = <<>>
    /\ rRelatable = FALSE
    /\ WsIdle
    /\ CfgIdle
    /\ AcctIdle
    /\ LookIdle

\* wg.Add(len(Bot.Exchanges)) at the top of an iteration (routines.go:186, 240)
LoopAdd(l) ==
    /\ lpc[l] = "add"
    /\ iter[l] < MaxIter
    /\ iter' = [iter EXCEPT ![l] = @ + 1]
    /\ wgc' = [wgc EXCEPT ![l] = @ + Len(exchanges)]
    /\ lx' = [lx EXCEPT ![l] = 1]
    /\ lpc' = [lpc EXCEPT ![l] = IF Len(exchanges) = 0 THEN "wait" ELSE "range"]
    /\ log' = [log EXCEPT ![l] = {}]
    /\ UNCHANGED <<tasks, cache, wsServer, exchanges>>
    /\ UNCHANGED <<pairVars, wsVars, auxVars>>

\* go func(x, &wg) for the next x of the range (routines.go:187-188, 241-242)
LoopLaunch(l) ==
    /\ lpc[l] = "range"
    /\ tasks' = tasks \cup {[loop |-> l, it |-> iter[l], x |-> lx[l], pc |-> "start",
                             z |-> 1, ver |-> 0]}
    /\ lx' = [lx EXCEPT ![l] = @ + 1]
    /\ lpc' = [lpc EXCEPT ![l] = IF lx[l] = Len(exchanges) THEN "wait" ELSE "range"]
    /\ UNCHANGED <<iter, wgc, cache, log, wsServer, exchanges>>
    /\ UNCHANGED <<pairVars, wsVars, auxVars>>

\* a wait that does not block
WaitReleased_NoBarrier(l) == TRUE

\* one barrier shared by the two routines
WaitReleased_SharedBarrier(l) == \A k \in DOMAIN wgc : wgc[k] = 0

\* wg.Wait() returns once the counter is zero (routines.go:228, 271)
WaitReleased(l) == wgc[l] = 0

LoopWait(l) ==
    /\ lpc[l] = "wait"
    /\ WaitReleased(l)
    /\ lpc' = [lpc EXCEPT ![l] = "sleep"]
    /\ UNCHANGED <<iter, lx, wgc, tasks, cache, log, wsServer, exchanges>>
    /\ UNCHANGED <<pairVars, wsVars, auxVars>>

\* time.Sleep(time.Second * 10), then the next pass of the for loop (routines.go:230, 273)
LoopSleep(l) ==
    /\ lpc[l] = "sleep"
    /\ lpc' = [lpc EXCEPT ![l] = "add"]
    /\ UNCHANGED <<iter, lx, wgc, tasks, cache, log, wsServer, exchanges>>
    /\ UNCHANGED <<pairVars, wsVars, auxVars>>

\* the task t with its fields changed
Moved(t, pc, z, ver) == [t EXCEPT !.pc = pc, !.z = z, !.ver = ver]

\* where a task goes after the pair at index z: the next enabled pair, or the return
AfterPair(t) ==
    IF t.z < Len(exchanges[t.x].pairs)
    THEN Moved(t, "fetch", t.z + 1, 0)
    ELSE Moved(t, "exit", t.z, 0)

\* the nil / SupportsREST check at the top of a task (routines.go:191-193, 245-247)
Skips(e) == e.nil \/ ~e.rest

\* the task's first steps up to the first pair (routines.go:189-197, 216-218)
TaskStart(t) ==
    /\ t.pc = "start"
    /\ tasks' = (tasks \ {t}) \cup
         {IF Skips(exchanges[t.x]) \/ Len(exchanges[t.x].pairs) = 0
          THEN Moved(t, "exit", 1, 0)
          ELSE Moved(t, "fetch", 1, 0)}
    /\ UNCHANGED <<iter, lpc, lx, wgc, cache, log, wsServer, exchanges>>
    /\ UNCHANGED <<pairVars, wsVars, auxVars>>

\* an event of the current iteration's log
Event(t, kind, ver) ==
    [ex |-> exchanges[t.x].name, p |-> exchanges[t.x].pairs[t.z], kind |-> kind, ver |-> ver]

\* the store after a successful UpdateTicker: a batching wrapper processes every
\* enabled pair (yobit_wrapper.go:175-186), another one only p (part_002:213-214)
TickerStored(c, e, p, n) ==
    [q \in PairNames |-> IF (IF e.batching THEN InSeq(e.pairs, q) ELSE q = p) THEN n ELSE c[q]]

\* the store after a successful UpdateOrderbook of pair p
OrderbookStored(c, e, p, n) == [c EXCEPT ![p] = n]

\* processTicker's update argument (routines.go:219-223)
UpdateArg(e, z) == ~(e.batching /\ z > 1)

\* an error that is not checked: the empty result goes on to be staged
LiveFails_StillStaged(t) ==
    /\ log' = [log EXCEPT ![t.loop] = @ \cup {Event(t, "live_err", 0)}]
    /\ tasks' = (tasks \ {t}) \cup {Moved(t, "stage", t.z, 0)}
    /\ UNCHANGED cache

\* a live UpdateTicker / UpdateOrderbook call returns an error: nothing is stored,
\* nothing is staged (routines.go:203-208, 253-255)
LiveFails(t) ==
    /\ log' = [log EXCEPT ![t.loop] = @ \cup {Event(t, "live_err", 0)}]
    /\ tasks' = (tasks \ {t}) \cup {AfterPair(t)}
    /\ UNCHANGED cache

\* a live UpdateTicker / UpdateOrderbook call succeeds: the store is written and read back
LiveSucceeds(t) ==
    LET e == exchanges[t.x]
        p == e.pairs[t.z]
    IN  /\ cache' = [cache EXCEPT ![t.loop][e.name] =
                        IF t.loop = "ticker" THEN TickerStored(@, e, p, t.it)
                                             ELSE OrderbookStored(@, e, p, t.it)]
        /\ log' = [log EXCEPT ![t.loop] = @ \cup {Event(t, "live_ok", t.it)}]
        /\ tasks' = (tasks \ {t}) \cup {Moved(t, "stage", t.z, t.it)}

\* FetchTicker finds the pair in the store and returns it without a live call
\* (yobit_wrapper.go:191-196)
ServedFromCache(t) ==
    LET e == exchanges[t.x]
        p == e.pairs[t.z]
    IN  /\ log' = [log EXCEPT ![t.loop] = @ \cup {Event(t, "hit", cache[t.loop][e.name][p])}]
        /\ tasks' = (tasks \ {t}) \cup {Moved(t, "stage", t.z, cache[t.loop][e.name][p])}
        /\ UNCHANGED cache

\* the exchange call of processTicker / processOrderbook (routines.go:202-206, 253)
TaskFetch(t) ==
    /\ t.pc = "fetch"
    /\ LET e == exchanges[t.x]
           p == e.pairs[t.z]
       IN  IF t.loop = "ticker" /\ ~UpdateArg(e, t.z) /\ cache[t.loop][e.name][p] # 0
           THEN ServedFromCache(t)
           ELSE LiveSucceeds(t) \/ LiveFails(t)
    /\ UNCHANGED <<iter, lpc, lx, wgc, wsServer, exchanges>>
    /\ UNCHANGED <<pairVars, wsVars, auxVars>>

\* a stage step that goes on to relay whether or not the server is enabled
TaskStage_AlwaysRelays(t) ==
    /\ t.pc = "stage"
    /\ log' = [log EXCEPT ![t.loop] = @ \cup {Event(t, "stage", t.ver)}]
    /\ tasks' = (tasks \ {t}) \cup {Moved(t, "relay", t.z, t.ver)}
    /\ UNCHANGED <<iter, lpc, lx, wgc, cache, wsServer, exchanges>>
    /\ UNCHANGED <<pairVars, wsVars, auxVars>>

\* Bot.CommsRelayer.StageTickerData / StageOrderbookData (routines.go:209, 256)
TaskStage(t) ==
    /\ t.pc = "stage"
    /\ log' = [log EXCEPT ![t.loop] = @ \cup {Event(t, "stage", t.ver)}]
    /\ tasks' = (tasks \ {t}) \cup
         {IF wsServer THEN Moved(t, "relay", t.z, t.ver) ELSE AfterPair(t)}
    /\ UNCHANGED <<iter, lpc, lx, wgc, cache, wsServer, exchanges>>
    /\ UNCHANGED <<pairVars, wsVars, auxVars>>

\* relayWebsocketEvent when the websocket server is enabled (routines.go:210-212, 257-259)
TaskRelay(t) ==
    /\ t.pc = "relay"
    /\ log' = [log EXCEPT ![t.loop] = @ \cup {Event(t, "relay", t.ver)}]
    /\ tasks' = (tasks \ {t}) \cup {AfterPair(t)}
    /\ UNCHANGED <<iter, lpc, lx, wgc, cache, wsServer, exchanges>>
    /\ UNCHANGED <<pairVars, wsVars, auxVars>>

\* a return that skips the exchange without reporting to the barrier
DoneOnReturn_NotOnSkip(t) == IF Skips(exchanges[t.x]) THEN 0 ELSE 1

\* defer wg.Done(): every return path of the task reports once (routines.go:189, 243)
DoneOnReturn(t) == 1

\* the goroutine returns and its deferred call runs
TaskExit(t) ==
    /\ t.pc = "exit"
    /\ wgc' = [wgc EXCEPT ![t.loop] = @ - DoneOnReturn(t)]
    /\ tasks' = tasks \ {t}
    /\ UNCHANGED <<iter, lpc, lx, cache, log, wsServer, exchanges>>
    /\ UNCHANGED <<pairVars, wsVars, auxVars>>

Next ==
    \/ \E l \in Loops : LoopAdd(l)
    \/ \E l \in Loops : LoopLaunch(l)
    \/ \E l \in Loops : LoopWait(l)
    \/ \E l \in Loops : LoopSleep(l)
    \/ \E t \in tasks : TaskStart(t)
    \/ \E t \in tasks : TaskFetch(t)
    \/ \E t \in tasks : TaskStage(t)
    \/ \E t \in tasks : TaskRelay(t)
    \/ \E t \in tasks : TaskExit(t)

Spec == Init /\ [][Next]_vars

\* the exchange call of a task never returns (routines.go:203, 205, 253); at
\* most one call of a run does so
TaskHangs(t) ==
    /\ t.pc = "fetch"
    /\ \A u \in tasks : u.pc # "hung"
    /\ tasks' = (tasks \ {t}) \cup {Moved(t, "hung", t.z, 0)}
    /\ UNCHANGED <<iter, lpc, lx, wgc, cache, log, wsServer, exchanges>>
    /\ UNCHANGED <<pairVars, wsVars, auxVars>>

\* the polling loops with an exchange call that may hang
NextHang == Next \/ \E t \in tasks : TaskHangs(t)

SpecHang == Init /\ [][NextHang]_vars

(***************************************************************************)
(* SpecRegistry: TickerUpdaterRoutine while the RPC server loads and       *)
(* unloads exchanges (engine/rpcserver.go DisableExchange, EnableExchange) *)
(***************************************************************************)

\* the exchanges EnableExchange can load
LoadChoices == {ExB, ExC}

\* the routine is not in the middle of its range over Bot.Exchanges: the range
\* expression is evaluated once, when the range statement starts
\* (routines.go:187)
NotRanging(l) == lpc[l] # "range" \/ lx[l] = 1

\* a goroutine has died of a run-time panic, and the process with it
Crashed == \E t \in tasks : t.pc = "panic"

\* UnloadExchange(name), called by DisableExchange (rpcserver.go:149-152), takes
\* the exchange out of Bot.Exchanges; here the last entry, and never the only one
UnloadExchange ==
    /\ ~Crashed
    /\ NotRanging("ticker")
    /\ Len(exchanges) > 1
    /\ exchanges' = SubSeq(exchanges, 1, Len(exchanges) - 1)
    /\ UNCHANGED <<iter, lpc, lx, wgc, tasks, cache, log, wsServer>>
    /\ UNCHANGED <<pairVars, wsVars, auxVars>>

\* LoadExchange(name, false, nil), called by EnableExchange (rpcserver.go:155-158),
\* appends the exchange to Bot.Exchanges
LoadExchange(e) ==
    /\ ~Crashed
    /\ NotRanging("ticker")
    /\ Len(exchanges) < MaxRegistry
    /\ \A i \in 1..Len(exchanges) : exchanges[i].name # e.name
    /\ \A t \in tasks : t.x <= Len(exchanges)
    /\ exchanges' = Append(exchanges, e)
    /\ UNCHANGED <<iter, lpc, lx, wgc, tasks, cache, log, wsServer>>
    /\ UNCHANGED <<pairVars, wsVars, auxVars>>

\* the index x of the task is within Bot.Exchanges
InRange(t) == t.x <= Len(exchanges)

\* Bot.Exchanges[x] with x beyond the end of the slice: the index expression
\* panics (routines.go:191, 220, 223)
TaskFaults(t) ==
    /\ ~Crashed
    /\ t.pc \in {"start", "fetch"}
    /\ ~InRange(t)
    /\ tasks' = (tasks \ {t}) \cup {Moved(t, "panic", t.z, 0)}
    /\ UNCHANGED <<iter, lpc, lx, wgc, cache, log, wsServer, exchanges>>
    /\ UNCHANGED <<pairVars, wsVars, auxVars>>

\* wg.Done() on a counter that is already zero panics (sync.WaitGroup); the
\* deferred call of a task that was launched beyond the armed count
\* (routines.go:186-189)
TaskOverReports(t) ==
    /\ ~Crashed
    /\ t.pc = "exit"
    /\ wgc[t.loop] = 0
    /\ tasks' = (tasks \ {t}) \cup {Moved(t, "panic", t.z, 0)}
    /\ UNCHANGED <<iter, lpc, lx, wgc, cache, log, wsServer, exchanges>>
    /\ UNCHANGED <<pairVars, wsVars, auxVars>>

NextRegistry ==
    \/ ~Crashed /\ LoopAdd("ticker")
    \/ ~Crashed /\ LoopLaunch("ticker")
    \/ ~Crashed /\ LoopWait("ticker")
    \/ ~Crashed /\ LoopSleep("ticker")
    \/ \E t \in tasks : ~Crashed /\ InRange(t) /\ TaskStart(t)
    \/ \E t \in tasks : ~Crashed /\ InRange(t) /\ TaskFetch(t)
    \/ \E t \in tasks : ~Crashed /\ InRange(t) /\ TaskStage(t)
    \/ \E t \in tasks : ~Crashed /\ InRange(t) /\ TaskRelay(t)
    \/ \E t \in tasks : ~Crashed /\ InRange(t) /\ wgc[t.loop] > 0 /\ TaskExit(t)
    \/ \E t \in tasks : TaskFaults(t)
    \/ \E t \in tasks : TaskOverReports(t)
    \/ UnloadExchange
    \/ \E e \in LoadChoices : LoadExchange(e)

SpecRegistry == Init /\ [][NextRegistry]_vars

\* the other groups of variables a websocket step leaves alone
WsFrame == UNCHANGED <<pairVars, auxVars, iter, lpc, lx, wgc, tasks, log, wsServer, exchanges>>

\* loops whose select has no shutdown case
ShutdownObserved_Never == FALSE

\* a select case <-shutdowner is ready once the channel is closed
\* (routines.go:350, 377, 466)
ShutdownObserved == shutdowner = "closed"

\* the outcomes of exchange.Websocket.Shutdown and exchange.Websocket.Connect
ShutdownOutcomes == {"ok", "err"}

ConnectOutcomes == {"ok", "err"}

\* a reconnect goroutine that has not returned
InProgress(t) == t.pc \in {"shutdown", "register", "loop"}

Reconnecting(e) == \E i \in 1..Len(rtasks) : rtasks[i].ws = e /\ InProgress(rtasks[i])

\* WebsocketRoutine's goroutine for exchange e starts the data handler
\* (routines.go:283-310)
WebsocketRoutine(e) ==
    /\ hpc[e] = "none"
    /\ hpc' = [hpc EXCEPT ![e] = "spawned"]
    /\ UNCHANGED <<shutdowner, gwg, dpc, rtasks, served, spc, swho, wpc, chanC, waitSaw, cache>>
    /\ WsFrame

\* WebsocketDataHandler: wg.Add(1), defer wg.Done(), go streamDiversion(ws)
\* (routines.go:370-373)
HandlerStart(e) ==
    /\ hpc[e] = "spawned"
    /\ gwg' = gwg + 1
    /\ hpc' = [hpc EXCEPT ![e] = "loop"]
    /\ dpc' = [dpc EXCEPT ![e] = "spawned"]
    /\ UNCHANGED <<shutdowner, rtasks, served, spc, swho, wpc, chanC, waitSaw, cache>>
    /\ WsFrame

\* a handler that runs the reconnect inline and is busy until it is over
CanReceive_WaitsForReconnect(e) == hpc[e] = "loop" /\ ~Reconnecting(e)

\* the handler is at its select and takes what ws.DataHandler delivers
\* (routines.go:375-380)
CanReceive(e) == hpc[e] = "loop"

\* what receiving a payload of the kind does (routines.go:381-443): a close-1006
\* error starts WebsocketReconnect in a goroutine of its own, a ticker is written to
\* the ticker store, every other kind is logged
HandleEvent(e, kind) ==
    /\ CanReceive(e)
    /\ kind = "close1006" => Len(rtasks) < MaxClose1006
    /\ rtasks' = IF kind = "close1006"
                 THEN Append(rtasks, [ws |-> e, pc |-> "shutdown", end |-> "", tried |-> FALSE, fails |-> 0])
                 ELSE rtasks
    /\ cache' = IF kind = "ticker"
                THEN [cache EXCEPT !["ticker"][e][WsPair] = WsTick]
                ELSE cache
    /\ served' = [served EXCEPT ![e] = @ \/ Reconnecting(e)]
    /\ UNCHANGED <<shutdowner, gwg, hpc, dpc, spc, swho, wpc, chanC, waitSaw>>
    /\ WsFrame

\* the handler's select takes <-shutdowner and returns; the deferred wg.Done() runs
\* (routines.go:377-378)
HandlerReturn(e) ==
    /\ hpc[e] = "loop"
    /\ ShutdownObserved
    /\ hpc' = [hpc EXCEPT ![e] = "done"]
    /\ gwg' = gwg - 1
    /\ UNCHANGED <<shutdowner, dpc, rtasks, served, spc, swho, wpc, chanC, waitSaw, cache>>
    /\ WsFrame

\* streamDiversion: wg.Add(1), defer wg.Done() (routines.go:345-346)
DiversionStart(e) ==
    /\ dpc[e] = "spawned"
    /\ gwg' = gwg + 1
    /\ dpc' = [dpc EXCEPT ![e] = "loop"]
    /\ UNCHANGED <<shutdowner, hpc, rtasks, served, spc, swho, wpc, chanC, waitSaw, cache>>
    /\ WsFrame

\* streamDiversion takes ws.Connected or ws.Disconnected and logs it
\* (routines.go:353-362)
DiversionNotify(e) ==
    /\ dpc[e] = "loop"
    /\ UNCHANGED wsVars
    /\ UNCHANGED cache
    /\ WsFrame

\* streamDiversion's select takes <-shutdowner and returns (routines.go:350-351)
DiversionReturn(e) ==
    /\ dpc[e] = "loop"
    /\ ShutdownObserved
    /\ dpc' = [dpc EXCEPT ![e] = "done"]
    /\ gwg' = gwg - 1
    /\ UNCHANGED <<shutdowner, hpc, rtasks, served, spc, swho, wpc, chanC, waitSaw, cache>>
    /\ WsFrame

\* WebsocketReconnect calls ws.Shutdown() and returns when it fails
\* (routines.go:454-458)
ReconnectShutdown(i) ==
    /\ i \in 1..Len(rtasks)
    /\ rtasks[i].pc = "shutdown"
    /\ \E r \in ShutdownOutcomes :
         rtasks' = [rtasks EXCEPT ![i] =
                      IF r = "ok" THEN [@ EXCEPT !.pc = "register"]
                                  ELSE [@ EXCEPT !.pc = "done", !.end = "shutdownFailed"]]
    /\ UNCHANGED <<shutdowner, gwg, hpc, dpc, served, spc, swho, wpc, chanC, waitSaw, cache>>
    /\ WsFrame

\* WebsocketReconnect: wg.Add(1), defer wg.Done(), time.NewTicker (routines.go:460-463)
ReconnectRegister(i) ==
    /\ i \in 1..Len(rtasks)
    /\ rtasks[i].pc = "register"
    /\ gwg' = gwg + 1
    /\ rtasks' = [rtasks EXCEPT ![i].pc = "loop"]
    /\ UNCHANGED <<shutdowner, hpc, dpc, served, spc, swho, wpc, chanC, waitSaw, cache>>
    /\ WsFrame

\* a reconnect that gives up after a failed attempt
AfterConnect_GivesUp(t, r) ==
    [t EXCEPT !.pc = "done", !.end = IF r = "ok" THEN "connected" ELSE "connectFailed"]

\* the reconnect task after a tick whose ws.Connect() returned r
\* (routines.go:469-473); fails is the number of failed attempts so far, kept as
\* 0 (none), 1 (odd) or 2 (even)
AfterConnect(t, r) ==
    IF r = "ok" THEN [t EXCEPT !.pc = "done", !.end = "connected"]
                ELSE [t EXCEPT !.tried = TRUE, !.fails = IF @ = 1 THEN 2 ELSE 1]

\* the 3-second ticker fires and ws.Connect() is attempted (routines.go:469-473)
ReconnectTick(i) ==
    /\ i \in 1..Len(rtasks)
    /\ rtasks[i].pc = "loop"
    /\ \E r \in ConnectOutcomes :
         /\ rtasks' = [rtasks EXCEPT ![i] = AfterConnect(@, r)]
         /\ gwg' = IF rtasks'[i].pc = "done" THEN gwg - 1 ELSE gwg
    /\ UNCHANGED <<shutdowner, hpc, dpc, served, spc, swho, wpc, chanC, waitSaw, cache>>
    /\ WsFrame

\* the reconnect loop's select takes <-shutdowner and returns (routines.go:466-467)
ReconnectSignal(i) ==
    /\ i \in 1..Len(rtasks)
    /\ rtasks[i].pc = "loop"
    /\ ShutdownObserved
    /\ rtasks' = [rtasks EXCEPT ![i] = [@ EXCEPT !.pc = "done", !.end = "signal"]]
    /\ gwg' = gwg - 1
    /\ UNCHANGED <<shutdowner, hpc, dpc, served, spc, swho, wpc, chanC, waitSaw, cache>>
    /\ WsFrame

\* Websocketshutdown(ws) is called with the websocket of exchange e
ShutdownCall(e) ==
    /\ spc = "idle"
    /\ spc' = "shutdown"
    /\ swho' = e
    /\ UNCHANGED <<shutdowner, gwg, hpc, dpc, rtasks, served, wpc, chanC, waitSaw, cache>>
    /\ WsFrame

\* ws.Shutdown(); an error is logged and the call goes on (routines.go:319-322)
ShutdownExchange ==
    /\ spc = "shutdown"
    /\ \E r \in ShutdownOutcomes : spc' = "arm"
    /\ UNCHANGED <<shutdowner, gwg, hpc, dpc, rtasks, served, swho, wpc, chanC, waitSaw, cache>>
    /\ WsFrame

\* the timer and c are made, the waiting goroutine is started, and the call
\* suspends in its select (routines.go:324-333)
ShutdownArm ==
    /\ spc = "arm"
    /\ spc' = "select"
    /\ wpc' = "close"
    /\ chanC' = 0
    /\ UNCHANGED <<shutdowner, gwg, hpc, dpc, rtasks, served, swho, waitSaw, cache>>
    /\ WsFrame

\* close(shutdowner) of the open channel (routines.go:328)
WaiterClose ==
    /\ wpc = "close"
    /\ shutdowner = "open"
    /\ shutdowner' = "closed"
    /\ wpc' = "wait"
    /\ UNCHANGED <<gwg, hpc, dpc, rtasks, served, spc, swho, chanC, waitSaw, cache>>
    /\ WsFrame

\* a wait that returns at once
WaitGroupZero_NoWait == TRUE

\* wg.Wait() returns when the counter is zero (routines.go:329)
WaitGroupZero == gwg = 0

WaiterWait ==
    /\ wpc = "wait"
    /\ WaitGroupZero
    /\ waitSaw' = gwg
    /\ wpc' = "send"
    /\ UNCHANGED <<shutdowner, gwg, hpc, dpc, rtasks, served, spc, swho, chanC, cache>>
    /\ WsFrame

\* c <- struct{}{}; c has room for one value (routines.go:325, 330)
WaiterSend ==
    /\ wpc = "send"
    /\ chanC' = chanC + 1
    /\ wpc' = "done"
    /\ UNCHANGED <<shutdowner, gwg, hpc, dpc, rtasks, served, spc, swho, waitSaw, cache>>
    /\ WsFrame

\* the select receives from c: Websocketshutdown returns nil (routines.go:337-338)
ShutdownReturnsNil ==
    /\ spc = "select"
    /\ chanC > 0
    /\ chanC' = chanC - 1
    /\ spc' = "retNil"
    /\ UNCHANGED <<shutdowner, gwg, hpc, dpc, rtasks, served, swho, wpc, waitSaw, cache>>
    /\ WsFrame

\* the 5-second timer fires while the call is suspended in its select with nothing
\* in c: Websocketshutdown returns the error (routines.go:334-335)
ShutdownTimesOut ==
    /\ spc = "select"
    /\ chanC = 0
    /\ spc' = "retErr"
    /\ UNCHANGED <<shutdowner, gwg, hpc, dpc, rtasks, served, swho, wpc, chanC, waitSaw, cache>>
    /\ WsFrame

InitWS ==
    /\ WsIdle
    /\ CfgIdle
    /\ AcctIdle
    /\ LookIdle
    /\ PollIdle
    /\ qpc = "input"
    /\ qP1 = NoPair
    /\ qP2 = NoPair
    /\ qIncOrig = FALSE
    /\ qIncUSDT = FALSE
    /\ rPairs = <<>>
    /\ rRelatable = FALSE

NextWS ==
    \/ \E e \in Websockets : WebsocketRoutine(e)
    \/ \E e \in Websockets : HandlerStart(e)
    \/ \E e \in Websockets, kind \in Kinds : HandleEvent(e, kind)
    \/ \E e \in Websockets : HandlerReturn(e)
    \/ \E e \in Websockets : DiversionStart(e)
    \/ \E e \in Websockets : DiversionNotify(e)
    \/ \E e \in Websockets : DiversionReturn(e)
    \/ \E i \in RIds : ReconnectShutdown(i)
    \/ \E i \in RIds : ReconnectRegister(i)
    \/ \E i \in RIds : ReconnectTick(i)
    \/ \E i \in RIds : ReconnectSignal(i)
    \/ \E e \in Websockets : ShutdownCall(e)
    \/ ShutdownExchange
    \/ ShutdownArm
    \/ WaiterClose
    \/ WaiterWait
    \/ WaiterSend
    \/ ShutdownReturnsNil
    \/ ShutdownTimesOut

SpecWS == InitWS /\ [][NextWS]_vars

(***************************************************************************)
(* SpecReconnect: the data handler of one websocket whose feed delivers    *)
(* close-1006 errors while a reconnect is in progress                      *)
(***************************************************************************)

\* the websocket the feed of which fails
FailingWs == "A"

\* a further close-1006 error is taken while a reconnect of the websocket is in
\* progress: go WebsocketReconnect(ws, ...) without any check (routines.go:394-398)
FurtherClose1006(e) ==
    /\ CanReceive(e)
    /\ Reconnecting(e)
    /\ Len(rtasks) < MaxReconnects
    /\ rtasks' = Append(rtasks, [ws |-> e, pc |-> "shutdown", end |-> "", tried |-> FALSE, fails |-> 0])
    /\ served' = [served EXCEPT ![e] = TRUE]
    /\ UNCHANGED <<shutdowner, gwg, hpc, dpc, spc, swho, wpc, chanC, waitSaw, cache>>
    /\ WsFrame

NextReconnect ==
    \/ WebsocketRoutine(FailingWs)
    \/ HandlerStart(FailingWs)
    \/ \E kind \in Kinds : HandleEvent(FailingWs, kind)
    \/ FurtherClose1006(FailingWs)
    \/ DiversionStart(FailingWs)
    \/ DiversionNotify(FailingWs)
    \/ \E i \in 1..MaxReconnects : ReconnectShutdown(i)
    \/ \E i \in 1..MaxReconnects : ReconnectRegister(i)
    \/ \E i \in 1..MaxReconnects : ReconnectTick(i)

SpecReconnect == InitWS /\ [][NextReconnect]_vars

\* the 3-second ticker of a reconnect loop keeps firing (routines.go:463, 469)
LiveSpecReconnect ==
    /\ SpecReconnect
    /\ \A i \in 1..MaxReconnects : WF_vars(ReconnectTick(i))

(***************************************************************************)
(* SpecShutdownTwice: the websocket goroutines with Websocketshutdown      *)
(* called again after it has returned                                      *)
(***************************************************************************)

\* the waiting goroutine has not panicked
Alive == wpc # "panic"

\* Websocketshutdown(ws) is called again, after the previous call has returned
\* and its waiting goroutine has finished
ShutdownCallAgain(e) ==
    /\ Alive
    /\ spc \in {"retNil", "retErr"}
    /\ wpc = "done"
    /\ spc' = "shutdown"
    /\ swho' = e
    /\ UNCHANGED <<shutdowner, gwg, hpc, dpc, rtasks, served, wpc, chanC, waitSaw, cache>>
    /\ WsFrame

\* close(shutdowner) of the package-level channel that is already closed: the
\* run-time panics (routines.go:310, 328)
WaiterFaults ==
    /\ wpc = "close"
    /\ shutdowner = "closed"
    /\ wpc' = "panic"
    /\ UNCHANGED <<shutdowner, gwg, hpc, dpc, rtasks, served, spc, swho, chanC, waitSaw, cache>>
    /\ WsFrame

NextShutdownTwice ==
    \/ \E e \in Websockets : Alive /\ WebsocketRoutine(e)
    \/ \E e \in Websockets : Alive /\ HandlerStart(e)
    \/ \E e \in Websockets, kind \in Kinds : Alive /\ HandleEvent(e, kind)
    \/ \E e \in Websockets : Alive /\ HandlerReturn(e)
    \/ \E e \in Websockets : Alive /\ DiversionStart(e)
    \/ \E e \in Websockets : Alive /\ DiversionNotify(e)
    \/ \E e \in Websockets : Alive /\ DiversionReturn(e)
    \/ \E i \in RIds : Alive /\ ReconnectShutdown(i)
    \/ \E i \in RIds : Alive /\ ReconnectRegister(i)
    \/ \E i \in RIds : Alive /\ ReconnectTick(i)
    \/ \E i \in RIds : Alive /\ ReconnectSignal(i)
    \/ \E e \in Websockets : Alive /\ ShutdownCall(e)
    \/ \E e \in Websockets : ShutdownCallAgain(e)
    \/ Alive /\ ShutdownExchange
    \/ Alive /\ ShutdownArm
    \/ WaiterClose
    \/ WaiterFaults
    \/ Alive /\ WaiterWait
    \/ Alive /\ WaiterSend
    \/ Alive /\ ShutdownReturnsNil
    \/ Alive /\ ShutdownTimesOut

SpecShutdownTwice == InitWS /\ [][NextShutdownTwice]_vars

(***************************************************************************)
(* SpecPairs: the helpers applied to every input of the bounded domain     *)
(***************************************************************************)

InitPairs ==
    /\ qpc = "input"
    /\ qP1 \in AllPairs
    /\ qP2 \in AllPairs
    /\ qIncOrig \in BOOLEAN
    /\ qIncUSDT \in BOOLEAN
    /\ rPairs = <<>>
    /\ rRelatable = FALSE
    /\ PollIdle
    /\ WsIdle
    /\ CfgIdle
    /\ AcctIdle
    /\ LookIdle

\* a caller evaluates GetRelatableCurrencies(qP1, qIncOrig, qIncUSDT)
CallGetRelatableCurrencies ==
    /\ qpc = "input"
    /\ qpc' = "relatable"
    /\ rPairs' = GetRelatableCurrencies(qP1, qIncOrig, qIncUSDT)
    /\ UNCHANGED <<qP1, qP2, qIncOrig, qIncUSDT, rRelatable>>
    /\ UNCHANGED <<pollVars, wsVars, auxVars>>

\* a caller evaluates IsRelatablePairs(qP1, qP2, qIncUSDT)
CallIsRelatablePairs ==
    /\ qpc = "input"
    /\ qpc' = "isrelatable"
    /\ rRelatable' = IsRelatablePairs(qP1, qP2, qIncUSDT)
    /\ UNCHANGED <<qP1, qP2, qIncOrig, qIncUSDT, rPairs>>
    /\ UNCHANGED <<pollVars, wsVars, auxVars>>

NextPairs == CallGetRelatableCurrencies \/ CallIsRelatablePairs

SpecPairs == InitPairs /\ [][NextPairs]_vars

(***************************************************************************)
(* config: exchange entries and their stored pair lists                    *)
(***************************************************************************)

\* A stored pair string is a sequence of tokens: the two currency symbols,
\* with the delimiter between them when the exchange's format has one; the
\* empty string is <<>>.
PairString(first, delimiter, second) ==
    IF delimiter = "" THEN <<first, second>> ELSE <<first, delimiter, second>>

\* the stored lists an exchange entry is given: delimited, undelimited,
\* reversed, repeated in either order, and with an empty element
AvailableChoices ==
    { [Delimiter |-> "-", Available |-> <<PairString("BTC", "-", "USD")>>],
      [Delimiter |-> "",  Available |-> <<PairString("USD", "", "BTC")>>],
      [Delimiter |-> "-", Available |-> <<PairString("BTC", "-", "USD"), PairString("LTC", "-", "USD")>>],
      [Delimiter |-> "",  Available |-> <<PairString("BTC", "", "USD"), PairString("USD", "", "BTC")>>],
      [Delimiter |-> "-", Available |-> << <<>> >>],
      [Delimiter |-> "",  Available |-> <<PairString("LTC", "", "BTC"), <<>> >>] }

\* the entries of Bot.Config.Exchanges with a given name; CurrencyPairs is
\* FALSE when the entry's CurrencyPairs pointer is nil
ExchangeConfigs(name) ==
    { [Name |-> name, Enabled |-> en, CurrencyPairs |-> cp,
       Delimiter |-> a.Delimiter, Available |-> a.Available] :
      en \in BOOLEAN, cp \in BOOLEAN, a \in AvailableChoices }

\* the configured exchanges, by name
ConfigNames == <<"A", "B">>

\* pair.FormatPairs on one element: split on the delimiter when there is one,
\* otherwise the leading symbol and the rest
FormatPair(s, delimiter) ==
    IF delimiter # ""
    THEN LET i == CHOOSE i \in 1..Len(s) : s[i] = delimiter
         IN  NewCurrencyPair(s[i - 1], s[i + 1])
    ELSE NewCurrencyPair(s[1], s[2])

\* pair.FormatPairs(strings, delimiter, index): empty elements are skipped
RECURSIVE FormatPairs(_, _)
FormatPairs(strs, delimiter) ==
    IF strs = <<>> THEN <<>>
    ELSE IF Head(strs) = <<>> THEN FormatPairs(Tail(strs), delimiter)
    ELSE <<FormatPair(Head(strs), delimiter)>> \o FormatPairs(Tail(strs), delimiter)

\* Config.GetExchangeConfig(name): the first entry of that name (part_001:729-738)
GetExchangeConfig(cfg, name) ==
    IF \E i \in 1..Len(cfg) : cfg[i].Name = name
    THEN [err |-> FALSE,
          val |-> cfg[CHOOSE i \in 1..Len(cfg) :
                        /\ cfg[i].Name = name
                        /\ \A j \in 1..(i - 1) : cfg[j].Name # name]]
    ELSE [err |-> TRUE, val |-> <<>>]

\* Config.GetPairFormat(exchName, assetType): [err, val] (part_001:592-611)
GetPairFormat(cfg, name) ==
    LET exchCfg == GetExchangeConfig(cfg, name)
    IN  IF exchCfg.err THEN [err |-> TRUE, val |-> ""]
        ELSE IF ~exchCfg.val.CurrencyPairs THEN [err |-> TRUE, val |-> ""]
        ELSE [err |-> FALSE, val |-> exchCfg.val.Delimiter]

\* Config.GetAvailablePairs(exchName, assetType): [err, val] (part_001:614-636)
GetAvailablePairs(cfg, name) ==
    LET exchCfg == GetExchangeConfig(cfg, name)
        pairFormat == GetPairFormat(cfg, name)
    IN  IF exchCfg.err THEN [err |-> TRUE, val |-> <<>>]
        ELSE IF pairFormat.err THEN [err |-> TRUE, val |-> <<>>]
        ELSE [err |-> FALSE, val |-> FormatPairs(exchCfg.val.Available, pairFormat.val)]

\* Config.SupportsPair(exchName, p, assetType): [err, val] (part_001:583-589)
SupportsPair(cfg, name, p) ==
    LET pairs == GetAvailablePairs(cfg, name)
    IN  IF pairs.err THEN [err |-> TRUE, val |-> FALSE]
        ELSE [err |-> FALSE, val |-> Contains(pairs.val, p, FALSE)]

(***************************************************************************)
(* engine/helpers.go: GetAllAvailablePairs and MapCurrenciesByExchange     *)
(***************************************************************************)

\* a merge that compares in the stored order only
MergePairs_ExactOnly(pairList, pairs) ==
    LET RECURSIVE Go(_, _)
        Go(acc, y) ==
            IF y > Len(pairs) THEN acc
            ELSE Go(IF Contains(acc, pairs[y], TRUE) THEN acc ELSE Append(acc, pairs[y]), y + 1)
    IN  Go(pairList, 1)

\* the loop over one exchange's pairs (helpers.go:34-39)
MergePairs(pairList, pairs) ==
    LET RECURSIVE Go(_, _)
        Go(acc, y) ==
            IF y > Len(pairs) THEN acc
            ELSE Go(IF Contains(acc, pairs[y], FALSE) THEN acc ELSE Append(acc, pairs[y]), y + 1)
    IN  Go(pairList, 1)

\* a filter that lets every configured exchange through
Considered_Everyone(e, enabledExchangesOnly) == TRUE

\* the exchanges an aggregation goes on with (helpers.go:24-26, 96-98)
Considered(e, enabledExchangesOnly) == ~(enabledExchangesOnly /\ ~e.Enabled)

\* a lookup error that throws away what was gathered so far
AfterLookup_DropsOnError(pairList, pairs) ==
    IF pairs.err THEN <<>> ELSE MergePairs(pairList, pairs.val)

\* what one exchange's lookup does to the list: an error is skipped with
\* continue (helpers.go:28-39)
AfterLookup(pairList, pairs) ==
    IF pairs.err THEN pairList ELSE MergePairs(pairList, pairs.val)

\* GetAllAvailablePairs(enabledExchangesOnly, assetType) (helpers.go:21-42)
GetAllAvailablePairs(cfg, enabledExchangesOnly) ==
    LET RECURSIVE Go(_, _)
        Go(pairList, x) ==
            IF x > Len(cfg) THEN pairList
            ELSE IF ~Considered(cfg[x], enabledExchangesOnly) THEN Go(pairList, x + 1)
            ELSE Go(AfterLookup(pairList, GetAvailablePairs(cfg, cfg[x].Name)), x + 1)
    IN  Go(<<>>, 1)

\* the map with p recorded under exchName (helpers.go:105-115)
MapPut(m, exchName, p) ==
    IF exchName \notin DOMAIN m
    THEN [n \in DOMAIN m \cup {exchName} |-> IF n = exchName THEN <<p>> ELSE m[n]]
    ELSE IF Contains(m[exchName], p, FALSE) THEN m
    ELSE [m EXCEPT ![exchName] = Append(@, p)]

\* MapCurrenciesByExchange(p, enabledExchangesOnly, assetType) (helpers.go:92-120)
MapCurrenciesByExchange(cfg, p, enabledExchangesOnly) ==
    LET RECURSIVE Inner(_, _, _)
        Inner(m, x, y) ==
            IF y > Len(cfg) THEN m
            ELSE IF ~Considered(cfg[y], enabledExchangesOnly) THEN Inner(m, x, y + 1)
            ELSE LET s == SupportsPair(cfg, cfg[y].Name, p[x])
                 IN  IF s.err \/ ~s.val THEN Inner(m, x, y + 1)
                     ELSE Inner(MapPut(m, cfg[y].Name, p[x]), x, y + 1)
        RECURSIVE Outer(_, _)
        Outer(m, x) == IF x > Len(p) THEN m ELSE Outer(Inner(m, x, 1), x + 1)
    IN  Outer([n \in {} |-> <<>>], 1)

\* the pair lists MapCurrenciesByExchange is called with
PairListChoices ==
    { <<>>,
      <<NewCurrencyPair("BTC", "USD")>>,
      <<NewCurrencyPair("USD", "BTC"), NewCurrencyPair("BTC", "USD")>>,
      <<NewCurrencyPair("LTC", "USD"), NewCurrencyPair("BTC", "USD")>>,
      <<NewCurrencyPair("LTC", "BTC"), NewCurrencyPair("LTC", "BTC"), NewCurrencyPair("AUD", "USD")>> }

(***************************************************************************)
(* SpecCfg: the two aggregations applied to every bounded configuration    *)
(***************************************************************************)

InitCfg ==
    /\ cpc = "input"
    /\ cfgExchanges \in {<<a, b>> : a \in ExchangeConfigs(ConfigNames[1]),
                                   b \in ExchangeConfigs(ConfigNames[2])}
    /\ cEnabledOnly \in BOOLEAN
    /\ cPairsIn \in PairListChoices
    /\ rAvail = <<>>
    /\ rMap = <<>>
    /\ PollIdle
    /\ WsIdle
    /\ AcctIdle
    /\ LookIdle
    /\ qpc = "input"
    /\ qP1 = NoPair
    /\ qP2 = NoPair
    /\ qIncOrig = FALSE
    /\ qIncUSDT = FALSE
    /\ rPairs = <<>>
    /\ rRelatable = FALSE

CfgFrame == UNCHANGED <<pairVars, pollVars, wsVars, acctVars, lookVars>>

\* a caller evaluates GetAllAvailablePairs(cEnabledOnly, spot)
CallGetAllAvailablePairs ==
    /\ cpc = "input"
    /\ cpc' = "avail"
    /\ rAvail' = GetAllAvailablePairs(cfgExchanges, cEnabledOnly)
    /\ UNCHANGED <<cfgExchanges, cEnabledOnly, cPairsIn, rMap>>
    /\ CfgFrame

\* a caller evaluates MapCurrenciesByExchange(cPairsIn, cEnabledOnly, spot)
CallMapCurrenciesByExchange ==
    /\ cpc = "input"
    /\ cpc' = "map"
    /\ rMap' = MapCurrenciesByExchange(cfgExchanges, cPairsIn, cEnabledOnly)
    /\ UNCHANGED <<cfgExchanges, cEnabledOnly, cPairsIn, rAvail>>
    /\ CfgFrame

NextCfg == CallGetAllAvailablePairs \/ CallMapCurrenciesByExchange

SpecCfg == InitCfg /\ [][NextCfg]_vars

(***************************************************************************)
(* config: CheckPairConsistency and SetPairs                               *)
(***************************************************************************)

\* the asset types an exchange entry lists (assets.go:16-23, three of the six)
AssetTypeSpot == "Spot"

AssetTypeFutures == "Futures"

AssetTypeMargin == "Margin"

\* the values of CurrencyPairsConfig.AssetTypes, as assets.New returns them
\* (assets.go:73-92)
AssetTypeChoices ==
    { <<AssetTypeSpot>>, <<AssetTypeSpot, AssetTypeFutures>>,
      <<AssetTypeFutures>>, <<AssetTypeSpot, AssetTypeMargin>> }

\* the stored Available / Enabled lists of one asset type, delimiter "-": an
\* enabled pair that is not available, none enabled, an element without the
\* delimiter, a reversed pair
PairConfigChoices ==
    LET bu == PairString("BTC", "-", "USD")
        lu == PairString("LTC", "-", "USD")
        ub == PairString("USD", "-", "BTC")
    IN  { [Available |-> <<bu, lu>>, Enabled |-> <<bu>>],
          [Available |-> <<bu, lu>>, Enabled |-> <<bu, ub>>],
          [Available |-> <<bu, lu>>, Enabled |-> <<ub>>],
          [Available |-> <<bu, lu>>, Enabled |-> << <<>> >>],
          [Available |-> << <<>> >>, Enabled |-> <<bu>>],
          [Available |-> <<bu>>, Enabled |-> <<bu, <<"LTC", "USD">> >>] }

\* the entries of Config.Exchanges that CheckPairConsistency is run on:
\* CurrencyPairs is set, with the global pair format and both pair configs
ConsistencyConfigs(name) ==
    { [Name |-> name, Enabled |-> TRUE, CurrencyPairs |-> TRUE, Delimiter |-> "-",
       AssetTypes |-> a, Spot |-> sp, Futures |-> fu] :
      a \in AssetTypeChoices, sp \in PairConfigChoices, fu \in PairConfigChoices }

\* Config.GetExchangeAssetTypes(exchName): [err, val] (part_001:361-372)
GetExchangeAssetTypes(cfg, name) ==
    LET exchCfg == GetExchangeConfig(cfg, name)
    IN  IF exchCfg.err THEN [err |-> TRUE, val |-> <<>>]
        ELSE IF ~exchCfg.val.CurrencyPairs THEN [err |-> TRUE, val |-> <<>>]
        ELSE [err |-> FALSE, val |-> exchCfg.val.AssetTypes]

\* Config.SupportsExchangeAssetType(exchName, assetType): [err, val]
\* (part_001:375-391)
SupportsExchangeAssetType(cfg, name, assetType) ==
    LET exchCfg == GetExchangeConfig(cfg, name)
    IN  IF exchCfg.err THEN [err |-> TRUE, val |-> FALSE]
        ELSE IF ~exchCfg.val.CurrencyPairs THEN [err |-> TRUE, val |-> FALSE]
        ELSE [err |-> FALSE, val |-> InSeq(exchCfg.val.AssetTypes, assetType)]

\* Config.GetCurrencyPairConfig(exchName, assetType): the spot config for spot,
\* the futures config for every other asset type (part_001:428-448)
GetCurrencyPairConfig(cfg, name, assetType) ==
    LET exchCfg == GetExchangeConfig(cfg, name)
        supports == SupportsExchangeAssetType(cfg, name, assetType)
    IN  IF exchCfg.err \/ supports.err \/ ~supports.val
        THEN [err |-> TRUE, val |-> <<>>]
        ELSE [err |-> FALSE,
              val |-> IF assetType = AssetTypeSpot THEN exchCfg.val.Spot
                                                   ELSE exchCfg.val.Futures]

\* pair.FormatPairs keeps in each pair the delimiter it was split on
WithDelimiter(pairs, delimiter) ==
    [i \in 1..Len(pairs) |->
        [FirstCurrency |-> pairs[i].FirstCurrency,
         SecondCurrency |-> pairs[i].SecondCurrency,
         Delimiter |-> delimiter]]

\* Config.GetEnabledPairs / GetAvailablePairs for an asset type: [err, val]; the
\* spot lists for spot, the futures lists for every other asset type
\* (part_001:614-661)
GetPairsOfAsset(cfg, name, assetType, enabled) ==
    LET exchCfg == GetExchangeConfig(cfg, name)
        pairFormat == GetPairFormat(cfg, name)
        pc == IF assetType = AssetTypeSpot THEN exchCfg.val.Spot ELSE exchCfg.val.Futures
        strs == IF enabled THEN pc.Enabled ELSE pc.Available
    IN  IF exchCfg.err THEN [err |-> TRUE, val |-> <<>>]
        ELSE IF pairFormat.err THEN [err |-> TRUE, val |-> <<>>]
        ELSE [err |-> FALSE,
              val |-> WithDelimiter(FormatPairs(strs, pairFormat.val), pairFormat.val)]

\* the checker closure of CheckPairConfigFormats: some loaded pair does not
\* contain the delimiter (part_001:476-498)
LacksDelimiter(strs, delimiter) ==
    delimiter # "" /\ \E y \in 1..Len(strs) : ~InSeq(strs[y], delimiter)

\* Config.CheckPairConfigFormats(exchName): TRUE when it returns an error
\* (part_001:451-512); a stored list is "" when it is the one empty element
CheckPairConfigFormats(cfg, name) ==
    LET assetTypes == GetExchangeAssetTypes(cfg, name)
        pairFmt == GetPairFormat(cfg, name)
    IN  \/ assetTypes.err
        \/ pairFmt.err
        \/ \E x \in 1..Len(assetTypes.val) :
              LET pairs == GetCurrencyPairConfig(cfg, name, assetTypes.val[x])
              IN  \/ pairs.err
                  \/ /\ pairs.val.Available # << <<>> >>
                     /\ pairs.val.Enabled # << <<>> >>
                     /\ \/ LacksDelimiter(pairs.val.Enabled, pairFmt.val)
                        \/ LacksDelimiter(pairs.val.Available, pairFmt.val)

\* pair.PairsToStringArray(pairs): each pair written with its own delimiter
PairsToStringArray(pairs) ==
    [i \in 1..Len(pairs) |->
        PairString(pairs[i].FirstCurrency, pairs[i].Delimiter, pairs[i].SecondCurrency)]

\* Config.SetPairs(exchName, assetType, enabled, pairs): [err, cfg]; the switch
\* has a case for spot and one for futures and no default (part_001:394-425)
SetPairs(cfg, name, assetType, enabled, pairs) ==
    LET exchCfg == GetExchangeConfig(cfg, name)
        supports == SupportsExchangeAssetType(cfg, name, assetType)
        i == CHOOSE i \in 1..Len(cfg) : cfg[i] = exchCfg.val
        pairsToString == PairsToStringArray(pairs)
    IN  IF exchCfg.err \/ supports.err \/ ~supports.val THEN [err |-> TRUE, cfg |-> cfg]
        ELSE IF assetType = AssetTypeSpot
        THEN [err |-> FALSE,
              cfg |-> IF enabled THEN [cfg EXCEPT ![i].Spot.Enabled = pairsToString]
                                 ELSE [cfg EXCEPT ![i].Spot.Available = pairsToString]]
        ELSE IF assetType = AssetTypeFutures
        THEN [err |-> FALSE,
              cfg |-> IF enabled THEN [cfg EXCEPT ![i].Futures.Enabled = pairsToString]
                                 ELSE [cfg EXCEPT ![i].Futures.Available = pairsToString]]
        ELSE [err |-> FALSE, cfg |-> cfg]

\* pair.RandomPairFromPairs(pairs) when the random index drawn is rnd
RandomPairFromPairs(pairs, rnd) == pairs[((rnd - 1) % Len(pairs)) + 1]

\* the enabled pairs that are available, strict order (part_001:545-553)
KeptPairs(enabledPairs, availPairs) ==
    SelectSeq(enabledPairs, LAMBDA e : Contains(availPairs, e, TRUE))

\* the body of CheckPairConsistency's loop for the asset types from x on:
\* [err, cfg] (part_001:527-578)
RECURSIVE ConsistencyLoop(_, _, _, _, _)
ConsistencyLoop(cfg, name, assetTypes, x, rnd) ==
    IF x > Len(assetTypes) THEN [err |-> FALSE, cfg |-> cfg]
    ELSE
    LET enabledPairs == GetPairsOfAsset(cfg, name, assetTypes[x], TRUE)
        availPairs == GetPairsOfAsset(cfg, name, assetTypes[x], FALSE)
        pairs == KeptPairs(enabledPairs.val, availPairs.val)
        update == Len(enabledPairs.val) = 0 \/ Len(pairs) < Len(enabledPairs.val)
        set == IF Len(pairs) = 0 \/ Len(enabledPairs.val) = 0
               THEN SetPairs(cfg, name, assetTypes[x], TRUE,
                             <<RandomPairFromPairs(availPairs.val, rnd[assetTypes[x]])>>)
               ELSE SetPairs(cfg, name, assetTypes[x], TRUE, pairs)
    IN  IF enabledPairs.err \/ availPairs.err THEN [err |-> TRUE, cfg |-> cfg]
        ELSE IF Len(availPairs.val) = 0 THEN ConsistencyLoop(cfg, name, assetTypes, x + 1, rnd)
        ELSE IF ~update THEN ConsistencyLoop(cfg, name, assetTypes, x + 1, rnd)
        ELSE IF set.err THEN [err |-> TRUE, cfg |-> cfg]
        ELSE ConsistencyLoop(set.cfg, name, assetTypes, x + 1, rnd)

\* Config.CheckPairConsistency(exchName): [err, cfg] (part_001:516-579)
CheckPairConsistency(cfg, name, rnd) ==
    LET assetTypes == GetExchangeAssetTypes(cfg, name)
    IN  IF assetTypes.err THEN [err |-> TRUE, cfg |-> cfg]
        ELSE IF CheckPairConfigFormats(cfg, name) THEN [err |-> TRUE, cfg |-> cfg]
        ELSE ConsistencyLoop(cfg, name, assetTypes.val, 1, rnd)

\* the names CheckPairConsistency is called with; "B" is not configured
ConsistencyNames == {"A", "B"}

\* the indices rand.Intn draws
RandomChoices == 1..2

InitConsistency ==
    /\ cpc = "input"
    /\ cfgExchanges \in {<<a>> : a \in ConsistencyConfigs("A")}
    /\ cEnabledOnly = FALSE
    /\ cPairsIn = <<>>
    /\ rAvail = <<>>
    /\ rMap = <<>>
    /\ PollIdle
    /\ WsIdle
    /\ AcctIdle
    /\ LookIdle
    /\ qpc = "input"
    /\ qP1 = NoPair
    /\ qP2 = NoPair
    /\ qIncOrig = FALSE
    /\ qIncUSDT = FALSE
    /\ rPairs = <<>>
    /\ rRelatable = FALSE

\* a caller runs CheckPairConsistency(name); the config is changed in place
CallCheckPairConsistency ==
    /\ cpc = "input"
    /\ \E name \in ConsistencyNames :
       \E rnd \in [{AssetTypeSpot, AssetTypeFutures, AssetTypeMargin} -> RandomChoices] :
         LET r == CheckPairConsistency(cfgExchanges, name, rnd)
         IN  /\ cfgExchanges' = r.cfg
             /\ rMap' = [name |-> name, err |-> r.err]
    /\ cpc' = "checked"
    /\ UNCHANGED <<cEnabledOnly, cPairsIn, rAvail>>
    /\ CfgFrame

NextConsistency == CallCheckPairConsistency

SpecConsistency == InitConsistency /\ [][NextConsistency]_vars

(***************************************************************************)
(* engine/helpers.go: account aggregation and portfolio seeding            *)
(***************************************************************************)

\* exchange.AccountCurrencyInfo (exchange_types.go:188-192), amounts as integers
AccountCurrencyInfo(name, total, hold) ==
    [CurrencyName |-> name, TotalValue |-> total, Hold |-> hold]

\* the currency entries an account is given
CurrencyInfos ==
    {AccountCurrencyInfo(n, t, h) : n \in {"BTC", "USD"}, t \in {-1, 0, 1, 2}, h \in {0, 1}}

\* exchange.Account (exchange_types.go:182-185)
Account(currencies) == [Currencies |-> currencies]

\* exchange.AccountInfo (exchange_types.go:176-179)
AccountInfo(exchange, accounts) == [Exchange |-> exchange, Accounts |-> accounts]

\* the account lists handed to the two functions: exchange A with two
\* accounts, B with one account, C with one account of two entries
AccountData ==
    { << AccountInfo("A", <<Account(<<e1>>), Account(<<e2>>)>>),
         AccountInfo("B", <<Account(<<e3>>)>>),
         AccountInfo("C", <<Account(<<AccountCurrencyInfo("USD", 1, 1),
                                      AccountCurrencyInfo("USD", 0, 1)>>)>>) >> :
      e1 \in CurrencyInfos, e2 \in CurrencyInfos,
      e3 \in {AccountCurrencyInfo("BTC", t, 1) : t \in {0, 1}} }

\* the currency entries of one AccountInfo in the order the nested loops
\* visit them (helpers.go:270-271, 335-336)
CurrenciesOf(accounts) ==
    LET RECURSIVE Go(_)
        Go(i) == IF i > Len(accounts.Accounts) THEN <<>>
                 ELSE accounts.Accounts[i].Currencies \o Go(i + 1)
    IN  Go(1)

\* a later occurrence that replaces the entry instead of adding to it
Accumulate_Overwrites(result, info) ==
    IF info.CurrencyName \notin DOMAIN result
    THEN [n \in DOMAIN result \cup {info.CurrencyName} |->
             IF n = info.CurrencyName
             THEN AccountCurrencyInfo(info.CurrencyName, info.TotalValue, info.Hold)
             ELSE result[n]]
    ELSE [result EXCEPT ![info.CurrencyName] =
             AccountCurrencyInfo(info.CurrencyName, info.TotalValue, info.Hold)]

\* one currency entry folded into the result map: the first occurrence creates
\* the entry, later ones add to it (helpers.go:272-284)
Accumulate(result, info) ==
    IF info.CurrencyName \notin DOMAIN result
    THEN [n \in DOMAIN result \cup {info.CurrencyName} |->
             IF n = info.CurrencyName
             THEN AccountCurrencyInfo(info.CurrencyName, info.TotalValue, info.Hold)
             ELSE result[n]]
    ELSE [result EXCEPT ![info.CurrencyName] =
             AccountCurrencyInfo(info.CurrencyName,
                                 @.TotalValue + info.TotalValue,
                                 @.Hold + info.Hold)]

\* GetCollatedExchangeAccountInfoByCoin(exchAccounts) (helpers.go:266-288)
GetCollatedExchangeAccountInfoByCoin(exchAccounts) ==
    LET RECURSIVE Fold(_, _, _)
        Fold(result, infos, i) ==
            IF i > Len(infos) THEN result ELSE Fold(Accumulate(result, infos[i]), infos, i + 1)
        RECURSIVE Go(_, _)
        Go(result, x) ==
            IF x > Len(exchAccounts) THEN result
            ELSE Go(Fold(result, CurrenciesOf(exchAccounts[x]), 1), x + 1)
    IN  Go([n \in {} |-> <<>>], 1)

\* portfolio.Address of an exchange: Address is the exchange name
Address(exchangeName, coinType, balance) ==
    [Address |-> exchangeName, CoinType |-> coinType, Balance |-> balance,
     Description |-> "Exchange"]

\* portfolio.Address of a personal wallet
PersonalAddress(address, coinType, balance) ==
    [Address |-> address, CoinType |-> coinType, Balance |-> balance,
     Description |-> "Personal"]

\* Base.ExchangeAddressExists(exchangeName, coinType)
ExchangeAddressExists(port, exchangeName, coinType) ==
    \E a \in port : a.Address = exchangeName /\ a.CoinType = coinType

\* Base.GetAddressBalance(address, coinType, description): [ok, val]
GetAddressBalance(port, exchangeName, coinType) ==
    IF ExchangeAddressExists(port, exchangeName, coinType)
    THEN [ok |-> TRUE,
          val |-> (CHOOSE a \in port : a.Address = exchangeName /\ a.CoinType = coinType).Balance]
    ELSE [ok |-> FALSE, val |-> 0]

\* Base.RemoveExchangeAddress(exchangeName, coinType)
RemoveExchangeAddress(port, exchangeName, coinType) ==
    {a \in port : ~(a.Address = exchangeName /\ a.CoinType = coinType)}

\* Base.UpdateExchangeAddressBalance(exchangeName, coinType, balance)
UpdateExchangeAddressBalance(port, exchangeName, coinType, balance) ==
    {IF a.Address = exchangeName /\ a.CoinType = coinType
     THEN [a EXCEPT !.Balance = balance] ELSE a : a \in port}

\* the per-exchange list `currencies`: one entry per currency name, in order
\* of first occurrence, summed over the accounts (helpers.go:334-354)
SeedTotals(exchangeData) ==
    LET infos == CurrenciesOf(exchangeData)
        Add(currencies, info) ==
            IF \E i \in 1..Len(currencies) : currencies[i].CurrencyName = info.CurrencyName
            THEN [i \in 1..Len(currencies) |->
                     IF currencies[i].CurrencyName = info.CurrencyName
                     THEN AccountCurrencyInfo(info.CurrencyName,
                                              currencies[i].TotalValue + info.TotalValue,
                                              currencies[i].Hold + info.Hold)
                     ELSE currencies[i]]
            ELSE Append(currencies, AccountCurrencyInfo(info.CurrencyName, info.TotalValue, info.Hold))
        RECURSIVE Go(_, _)
        Go(currencies, i) ==
            IF i > Len(infos) THEN currencies ELSE Go(Add(currencies, infos[i]), i + 1)
    IN  Go(<<>>, 1)

\* a reconciliation that, on a total of zero or less, drops every entry of the
\* exchange
Reconcile_PrunesExchange(port, exchangeName, total) ==
    IF ~ExchangeAddressExists(port, exchangeName, total.CurrencyName)
    THEN IF total.TotalValue <= 0 THEN port
         ELSE port \cup {Address(exchangeName, total.CurrencyName, total.TotalValue)}
    ELSE IF total.TotalValue <= 0
         THEN {a \in port : a.Address # exchangeName}
         ELSE UpdateExchangeAddressBalance(port, exchangeName,
                                           total.CurrencyName, total.TotalValue)

\* a reconciliation that leaves an existing entry in place whatever the total
Reconcile_AddsOnly(port, exchangeName, total) ==
    IF ~ExchangeAddressExists(port, exchangeName, total.CurrencyName)
    THEN IF total.TotalValue <= 0 THEN port
         ELSE port \cup {Address(exchangeName, total.CurrencyName, total.TotalValue)}
    ELSE port

\* one currency total reconciled against the ledger: add, remove or update
\* (helpers.go:356-407)
Reconcile(port, exchangeName, total) ==
    IF ~ExchangeAddressExists(port, exchangeName, total.CurrencyName)
    THEN IF total.TotalValue <= 0 THEN port
         ELSE port \cup {Address(exchangeName, total.CurrencyName, total.TotalValue)}
    ELSE IF total.TotalValue <= 0
         THEN RemoveExchangeAddress(port, exchangeName, total.CurrencyName)
         ELSE LET balance == GetAddressBalance(port, exchangeName, total.CurrencyName)
              IN  IF ~balance.ok THEN port
                  ELSE IF balance.val # total.TotalValue
                  THEN UpdateExchangeAddressBalance(port, exchangeName,
                                                    total.CurrencyName, total.TotalValue)
                  ELSE port

\* SeedExchangeAccountInfo(data): the ledger it leaves (helpers.go:323-410)
SeedExchangeAccountInfo(port, data) ==
    LET RECURSIVE Each(_, _, _, _)
        Each(p, exchangeName, currencies, i) ==
            IF i > Len(currencies) THEN p
            ELSE Each(Reconcile(p, exchangeName, currencies[i]), exchangeName, currencies, i + 1)
        RECURSIVE Go(_, _)
        Go(p, x) ==
            IF x > Len(data) THEN p
            ELSE Go(Each(p, data[x].Exchange, SeedTotals(data[x]), 1), x + 1)
    IN  IF Len(data) = 0 THEN port ELSE Go(port, 1)

\* the ledgers SeedExchangeAccountInfo finds: for each key no entry, or an
\* entry with one of two balances
LedgerKeys == {<<"A", "BTC">>, <<"A", "USD">>, <<"B", "BTC">>}

\* what the ledger may hold besides: a personal address and the entry of an
\* exchange that is not polled
OtherAddresses == {PersonalAddress("wallet", "BTC", 1), Address("D", "BTC", 3)}

Ledgers ==
    { {Address(k[1], k[2], f[k]) : k \in {j \in LedgerKeys : f[j] # 0}} \cup others :
      f \in [LedgerKeys -> {0, 1, 3}], others \in {{}, OtherAddresses} }

(***************************************************************************)
(* SpecAcct: the account functions applied to every bounded input          *)
(***************************************************************************)

InitAcct ==
    /\ apc = "input"
    /\ aData \in AccountData \cup {<<>>}
    /\ ledger \in Ledgers
    /\ ledger0 = ledger
    /\ rCollated = <<>>
    /\ PollIdle
    /\ WsIdle
    /\ CfgIdle
    /\ LookIdle
    /\ qpc = "input"
    /\ qP1 = NoPair
    /\ qP2 = NoPair
    /\ qIncOrig = FALSE
    /\ qIncUSDT = FALSE
    /\ rPairs = <<>>
    /\ rRelatable = FALSE

AcctFrame == UNCHANGED <<pairVars, pollVars, wsVars, cfgVars, lookVars>>

\* a caller evaluates GetCollatedExchangeAccountInfoByCoin(aData)
CallGetCollated ==
    /\ apc = "input"
    /\ apc' = "collated"
    /\ rCollated' = GetCollatedExchangeAccountInfoByCoin(aData)
    /\ UNCHANGED <<aData, ledger, ledger0>>
    /\ AcctFrame

\* a caller runs SeedExchangeAccountInfo(aData)
CallSeedExchangeAccountInfo ==
    /\ apc = "input"
    /\ apc' = "seeded"
    /\ ledger' = SeedExchangeAccountInfo(ledger, aData)
    /\ UNCHANGED <<aData, ledger0, rCollated>>
    /\ AcctFrame

NextAcct == CallGetCollated \/ CallSeedExchangeAccountInfo

SpecAcct == InitAcct /\ [][NextAcct]_vars

(***************************************************************************)
(* engine/helpers.go: lookups that target one exchange by name             *)
(***************************************************************************)

\* the lookups
LookupFns == {"GetSpecificTicker", "GetSpecificOrderbook",
              "GetAccountCurrencyInfoByExchangeName",
              "GetOrderByExchange", "CancelOrderByExchange"}

\* the store a wrapper's Fetch function reads: the ticker or the orderbook store
StoreOf(fn) == IF fn = "GetSpecificTicker" THEN "ticker" ELSE "orderbook"

\* the names a lookup is asked for: those of the model's exchanges and one
\* that no registry holds
LookupNames == ExchangeNames \cup {"Z"}

\* the stores a lookup finds: for exchanges A and B each pair stored or not
StoreChoices ==
    { [l \in Loops |-> [e \in ExchangeNames |-> [p \in PairNames |->
          IF e \in {"A", "B"} THEN f[<<l, e, p>>] ELSE 0]]] :
      f \in [Loops \X {"A", "B"} \X PairNames -> {0, 1}] }

\* the account lists GetAccountCurrencyInfoByExchangeName is given
LookupAccounts ==
    { <<>>,
      << AccountInfo("A", <<Account(<<AccountCurrencyInfo("BTC", 1, 0)>>)>>),
         AccountInfo("B", <<Account(<<AccountCurrencyInfo("USD", 2, 1)>>)>>) >> }

\* the loop `for x := range Bot.Exchanges` of GetSpecificTicker /
\* GetSpecificOrderbook: the non-nil entries of that name (helpers.go:232-234, 250-252)
Named(name) == {x \in 1..Len(exchanges) : ~exchanges[x].nil /\ exchanges[x].name = name}

\* the entry the loop stops at
FirstNamed(name) == CHOOSE x \in Named(name) : \A y \in Named(name) : x <= y

\* a Fetch that never looks into the store
Cached_Never(l, e, p) == FALSE

\* ticker.GetTicker / orderbook.GetOrderbook finds a value for (exchange, pair)
\* (yobit_wrapper.go:191, 200; part_002:220, 229)
Cached(l, e, p) == cache[l][e.name][p] # 0

\* what a lookup returns: the value and the error
Returned(val, err) == [val |-> val, err |-> err]

\* UpdateTicker / UpdateOrderbook: a live call that fails, or one that
\* succeeds, writes the store and returns what the store then holds
\* (yobit_wrapper.go:163-187, 208-228; part_002:200-216, 236-255)
Update(l, e, p) ==
    /\ kLive' = kLive + 1
    /\ \/ /\ kRes' = Returned(0, "exchange")
          /\ UNCHANGED cache
       \/ /\ cache' = [cache EXCEPT ![l][e.name] =
                          IF l = "ticker" THEN TickerStored(@, e, p, 2)
                                          ELSE OrderbookStored(@, e, p, 2)]
          /\ kRes' = IF cache'[l][e.name][p] = 0 THEN Returned(0, "exchange")
                     ELSE Returned(cache'[l][e.name][p], "nil")

\* FetchTicker / FetchOrderbook: the stored value if there is one, else a live
\* update (yobit_wrapper.go:190-205; part_002:218-234)
Fetch(l, e, p) ==
    IF Cached(l, e, p)
    THEN /\ kRes' = Returned(cache[l][e.name][p], "nil")
         /\ UNCHANGED <<kLive, cache>>
    ELSE Update(l, e, p)

LookFrame ==
    /\ UNCHANGED <<iter, lpc, lx, wgc, tasks, log, wsServer, exchanges>>
    /\ UNCHANGED <<pairVars, wsVars, cfgVars, acctVars>>

\* GetSpecificTicker / GetSpecificOrderbook(currency, exchangeName, assetType)
\* (helpers.go:227-261): without a match the zero value and the nil error of
\* the declarations are returned
GetSpecific(fn, name, p) ==
    /\ kpc = "input"
    /\ fn \in {"GetSpecificTicker", "GetSpecificOrderbook"}
    /\ kpc' = "done"
    /\ kFn' = fn
    /\ kName' = name
    /\ kPair' = p
    /\ IF Named(name) # {}
       THEN Fetch(StoreOf(fn), exchanges[FirstNamed(name)], p)
       ELSE /\ kRes' = Returned(0, "nil")
            /\ UNCHANGED <<kLive, cache>>
    /\ LookFrame

\* GetAccountCurrencyInfoByExchangeName(accounts, exchangeName) (helpers.go:291-298)
GetAccountCurrencyInfoByExchangeName(accounts, name) ==
    /\ kpc = "input"
    /\ kpc' = "done"
    /\ kFn' = "GetAccountCurrencyInfoByExchangeName"
    /\ kName' = name
    /\ kRes' = IF \E i \in 1..Len(accounts) : accounts[i].Exchange = name
               THEN Returned(accounts[CHOOSE i \in 1..Len(accounts) :
                                         /\ accounts[i].Exchange = name
                                         /\ \A j \in 1..(i - 1) : accounts[j].Exchange # name],
                             "nil")
               ELSE Returned(0, "notfound")
    /\ UNCHANGED <<kPair, kLive, cache>>
    /\ LookFrame

\* GetExchangeByName(exchName): the registry entry of that name, or nil
GetExchangeByName(name) ==
    IF Named(name) # {} THEN exchanges[FirstNamed(name)] ELSE NilExchange

\* GetOrderByExchange(exchName, orderID) / CancelOrderByExchange(exchName, order)
\* (helpers.go:518-526, 550-558): the exchange's own answer when it is found
OrderByExchange(fn, name) ==
    /\ kpc = "input"
    /\ fn \in {"GetOrderByExchange", "CancelOrderByExchange"}
    /\ kpc' = "done"
    /\ kFn' = fn
    /\ kName' = name
    /\ IF GetExchangeByName(name).nil
       THEN /\ kRes' = Returned(0, "notfound")
            /\ UNCHANGED kLive
       ELSE /\ kRes' \in {Returned(1, "nil"), Returned(0, "exchange")}
            /\ kLive' = kLive + 1
    /\ UNCHANGED <<kPair, cache>>
    /\ LookFrame

(***************************************************************************)
(* SpecLookup: one lookup against every bounded registry and store         *)
(***************************************************************************)

InitLookup ==
    /\ kpc = "input"
    /\ kFn = ""
    /\ kName = ""
    /\ kPair = ""
    /\ kRes = <<>>
    /\ kLive = 0
    /\ exchanges \in RegistryChoices
    /\ cache \in StoreChoices
    /\ iter = [l \in Loops |-> 0]
    /\ lpc = [l \in Loops |-> "add"]
    /\ lx = [l \in Loops |-> 1]
    /\ wgc = [l \in Loops |-> 0]
    /\ tasks = {}
    /\ log = [l \in Loops |-> {}]
    /\ wsServer = FALSE
    /\ WsIdle
    /\ CfgIdle
    /\ AcctIdle
    /\ qpc = "input"
    /\ qP1 = NoPair
    /\ qP2 = NoPair
    /\ qIncOrig = FALSE
    /\ qIncUSDT = FALSE
    /\ rPairs = <<>>
    /\ rRelatable = FALSE

NextLookup ==
    \/ \E fn \in LookupFns, name \in LookupNames, p \in PairNames : GetSpecific(fn, name, p)
    \/ \E accounts \in LookupAccounts, name \in LookupNames :
           GetAccountCurrencyInfoByExchangeName(accounts, name)
    \/ \E fn \in LookupFns, name \in LookupNames : OrderByExchange(fn, name)

SpecLookup == InitLookup /\ [][NextLookup]_vars

(***************************************************************************)
(* Claims about the aggregations over the configuration (SpecCfg)          *)
(***************************************************************************)

\* the pair a stored string names: its first and its last token
NamedPair(str) == NewCurrencyPair(str[1], str[Len(str)])

\* the pairs an exchange entry lists, when its lookup succeeds
Listed(e) ==
    IF e.CurrencyPairs THEN {NamedPair(str) : str \in {t \in Range(e.Available) : t # <<>>}} ELSE {}

\* p is one of ps, in either currency order
Among(p, ps) == \E q \in ps : q = p \/ q = Swap(p)

\* no two entries of a list name the same pair in either order
NoEitherOrderDuplicates(list) ==
    \A i, j \in 1..Len(list) : i # j => ~Among(list[i], {list[j]})

\* the entries of the configuration a call with this flag takes into account
Counted == {e \in Range(cfgExchanges) : e.Enabled \/ ~cEnabledOnly}

\* C11: whatever the exchanges list, GetAllAvailablePairs returns no two
\* entries that are equal under either-order pair equality.
C11_NoDuplicatePairs == cpc = "avail" => NoEitherOrderDuplicates(rAvail)

\* two counted exchanges list the same pair in reversed order and it is
\* returned once
C11_Witness ==
    /\ cpc = "avail"
    /\ \E a, b \in Counted : a # b /\ \E p \in Listed(a) : Swap(p) \in Listed(b) /\ p # Swap(p)
    /\ Len(rAvail) = 1

\* C12: GetAllAvailablePairs returns the pairs of every counted exchange whose
\* lookup succeeds; an exchange whose lookup fails and, with
\* enabledExchangesOnly, a disabled exchange contribute nothing.
C12_PartialResult ==
    cpc = "avail" =>
        /\ \A e \in Counted : \A p \in Listed(e) : Among(p, Range(rAvail))
        /\ \A p \in Range(rAvail) : \E e \in Counted : p \in Listed(e)

\* the second exchange's lookup fails, the first one's pairs are still returned
C12_Witness ==
    /\ cpc = "avail"
    /\ ~cfgExchanges[2].CurrencyPairs /\ cfgExchanges[2] \in Counted
    /\ cfgExchanges[1].CurrencyPairs /\ cfgExchanges[1] \in Counted
    /\ rAvail # <<>>

\* C13: an exchange name is a key of MapCurrenciesByExchange's result exactly
\* when the exchange is counted and lists an input pair; its value holds
\* exactly the input pairs it lists, none twice in either order; and for A
\* enabled, B disabled, both listing BTC-USD, [BTC-USD] with enabledOnly maps
\* to {A: [BTC-USD]}.
C13_InverseIndex ==
    cpc = "map" =>
        /\ \A e \in Range(cfgExchanges) :
               e.Name \in DOMAIN rMap <=>
                   (e \in Counted /\ \E p \in Range(cPairsIn) : Among(p, Listed(e)))
        /\ \A e \in Range(cfgExchanges) :
               e.Name \in DOMAIN rMap =>
                   /\ NoEitherOrderDuplicates(rMap[e.Name])
                   /\ \A p \in Range(rMap[e.Name]) : p \in Range(cPairsIn) /\ Among(p, Listed(e))
                   /\ \A p \in Range(cPairsIn) :
                          Among(p, Listed(e)) => Among(p, Range(rMap[e.Name]))
        /\ DOMAIN rMap \subseteq {e.Name : e \in Range(cfgExchanges)}
        /\ ( /\ cEnabledOnly
             /\ cPairsIn = <<NewCurrencyPair("BTC", "USD")>>
             /\ cfgExchanges[1].Enabled /\ ~cfgExchanges[2].Enabled
             /\ \A i \in 1..2 : Among(NewCurrencyPair("BTC", "USD"), Listed(cfgExchanges[i])) )
          => rMap = [n \in {cfgExchanges[1].Name} |-> <<NewCurrencyPair("BTC", "USD")>>]

\* the scenario: A enabled, B disabled, both list BTC-USD, enabledOnly
C13_Witness ==
    /\ cpc = "map"
    /\ cEnabledOnly
    /\ cPairsIn = <<NewCurrencyPair("BTC", "USD")>>
    /\ cfgExchanges[1].Enabled /\ ~cfgExchanges[2].Enabled
    /\ \A i \in 1..2 : Among(NewCurrencyPair("BTC", "USD"), Listed(cfgExchanges[i]))
    /\ DOMAIN rMap = {"A"}


(***************************************************************************)
(* Claims about the account functions (SpecAcct)                           *)
(***************************************************************************)

\* all currency entries of an account list, exchange by exchange
AllEntries(data) ==
    LET RECURSIVE Go(_)
        Go(x) == IF x > Len(data) THEN <<>> ELSE CurrenciesOf(data[x]) \o Go(x + 1)
    IN  Go(1)

\* the sum of TotalValue, and of Hold, over the entries of one currency
SumTotal(entries, name) ==
    LET RECURSIVE Go(_)
        Go(i) == IF i > Len(entries) THEN 0
                 ELSE (IF entries[i].CurrencyName = name THEN entries[i].TotalValue ELSE 0) + Go(i + 1)
    IN  Go(1)

SumHold(entries, name) ==
    LET RECURSIVE Go(_)
        Go(i) == IF i > Len(entries) THEN 0
                 ELSE (IF entries[i].CurrencyName = name THEN entries[i].Hold ELSE 0) + Go(i + 1)
    IN  Go(1)

NamesIn(entries) == {entries[i].CurrencyName : i \in 1..Len(entries)}

\* C14: for every permutation of the input account list the collated result
\* has the same currency names and, per currency, TotalValue and Hold equal to
\* the sums over all exchanges and accounts.
C14_CollateOrderIndependent ==
    apc = "collated" =>
        \A f \in Permutations(1..Len(aData)) :
            LET permuted == [i \in 1..Len(aData) |-> aData[f[i]]]
                r == GetCollatedExchangeAccountInfoByCoin(permuted)
            IN  /\ r = rCollated
                /\ DOMAIN r = NamesIn(AllEntries(aData))
                /\ \A n \in DOMAIN r :
                       /\ r[n].CurrencyName = n
                       /\ r[n].TotalValue = SumTotal(AllEntries(aData), n)
                       /\ r[n].Hold = SumHold(AllEntries(aData), n)

\* a currency held in both accounts of one exchange and on another exchange
\* has been summed
C14_Witness ==
    /\ apc = "collated"
    /\ Len(aData) = 3
    /\ \A i \in 1..2 : aData[1].Accounts[i].Currencies[1].CurrencyName = "USD"
    /\ "USD" \in NamesIn(CurrenciesOf(aData[3]))
    /\ "USD" \in DOMAIN rCollated
    /\ rCollated["USD"].TotalValue = 4
    /\ rCollated["USD"].Hold = 3

\* C15: whatever the ledger held before, after SeedExchangeAccountInfo(data)
\* every (exchange, currency) of data with a positive total over the
\* exchange's accounts has an exchange entry with that balance, and every one
\* with a total of zero or less has none.
C15_LedgerReconciled ==
    apc = "seeded" =>
        \A x \in 1..Len(aData) :
            \A n \in NamesIn(CurrenciesOf(aData[x])) :
                LET total == SumTotal(CurrenciesOf(aData[x]), n)
                    entries == {a \in ledger : a.Address = aData[x].Exchange /\ a.CoinType = n}
                IN  IF total > 0
                    THEN entries = {Address(aData[x].Exchange, n, total)}
                    ELSE entries = {}

\* one entry was updated to a different total, one was removed because its
\* total is zero, and one was added
C15_Witness ==
    /\ apc = "seeded"
    /\ Address("A", "BTC", 1) \in ledger0 /\ Address("A", "BTC", 3) \in ledger
    /\ Address("B", "BTC", 1) \in ledger0 /\ ~ExchangeAddressExists(ledger, "B", "BTC")
    /\ ~ExchangeAddressExists(ledger0, "C", "USD") /\ Address("C", "USD", 1) \in ledger

(***************************************************************************)
(* Claims about the lookups by exchange name (SpecLookup)                  *)
(***************************************************************************)

\* C16: a lookup that targets one exchange by name returns a not-found error
\* when no exchange of that name is in the registry (for
\* GetAccountCurrencyInfoByExchangeName: in the account list); it never
\* returns a zero value together with a nil error.
C16_NotFoundIsAnError ==
    (/\ kpc = "done"
     /\ kFn \in LookupFns \ {"GetAccountCurrencyInfoByExchangeName"}
     /\ \A x \in 1..Len(exchanges) : exchanges[x].name # kName)
        => (kRes.err = "notfound" /\ ~(kRes.val = 0 /\ kRes.err = "nil"))

\* C17: FetchTicker and FetchOrderbook return the stored value without a live
\* call whenever the store holds one for (exchange, pair), and make a live
\* update, which writes the store when it succeeds, only when it holds none.
C17_FetchOrUpdate ==
    [][ (/\ kpc = "input" /\ kpc' = "done"
         /\ kFn' \in {"GetSpecificTicker", "GetSpecificOrderbook"}
         /\ \E x \in 1..Len(exchanges) : exchanges[x].name = kName')
        => LET held == cache[StoreOf(kFn')][kName'][kPair']
               holds == cache'[StoreOf(kFn')][kName'][kPair']
           IN  /\ held # 0 => /\ kLive' = kLive
                              /\ cache' = cache
                              /\ kRes' = [val |-> held, err |-> "nil"]
               /\ held = 0 => /\ kLive' = kLive + 1
                              /\ kRes'.err = "nil" => (holds # 0 /\ kRes'.val = holds)
                              /\ kRes'.err # "nil" => cache' = cache
               /\ cache' # cache => (held = 0 /\ kRes'.err = "nil") ]_vars

\* a ticker was served from the store without a live call
C17_Witness ==
    /\ kpc = "done"
    /\ kFn = "GetSpecificTicker"
    /\ kName = "A"
    /\ kRes.err = "nil" /\ kRes.val = 1
    /\ kLive = 0

(***************************************************************************)
(* Claims about the pair helpers (checked under SpecPairs)                 *)
(***************************************************************************)

\* C8: for every pair P, GetRelatableCurrencies(P, incOrig = true, incUSDT = true)
\* contains P itself.
C8_ContainsOrig ==
    (qpc = "relatable" /\ qIncOrig /\ qIncUSDT) => (\E i \in 1..Len(rPairs) : rPairs[i] = qP1)

\* a call with both flags set whose result holds P, translated pairs and USDT pairs
C8_Witness ==
    /\ qpc = "relatable" /\ qIncOrig /\ qIncUSDT
    /\ qP1 = NewCurrencyPair("BTC", "USDT")
    /\ Len(rPairs) > 2
    /\ qP1 \in Range(rPairs)

\* C9: for every pair P, GetRelatableCurrencies(P, incOrig = false, incUSDT = false)
\* does not contain P and contains no pair in which either currency is USDT.
C9_ExcludesOrigAndUSDT ==
    (qpc = "relatable" /\ ~qIncOrig /\ ~qIncUSDT) =>
        /\ qP1 \notin Range(rPairs)
        /\ \A q \in Range(rPairs) : q.FirstCurrency # "USDT" /\ q.SecondCurrency # "USDT"

\* the relatable set of p1 with the original included
RelatableSet(p1, includeUSDT) == Range(GetRelatableCurrencies(p1, TRUE, includeUSDT))

\* the fiat expansion: every relatable pair's first currency against every fiat currency
FiatExpansion(p1, includeUSDT) ==
    IF IsCryptoFiatPair(p1)
    THEN {NewCurrencyPair(r.FirstCurrency, f) :
              r \in RelatableSet(p1, includeUSDT), f \in Range(FiatCurrencies)}
    ELSE {}

\* C10: IsRelatablePairs(p1, p2, includeUSDT) is true exactly when p1 equals p2 in
\* either order, or p2 is, in either order, a member of GetRelatableCurrencies(p1,
\* true, includeUSDT) united, when p1 is a crypto/fiat pair, with the fiat expansion;
\* in particular IsRelatablePairs(P, P, true) is true.
C10_IsRelatableCharacterised ==
    (qpc = "isrelatable") =>
        /\ rRelatable =
             (\/ Equal(qP1, qP2, FALSE)
              \/ \E q \in RelatableSet(qP1, qIncUSDT) \cup FiatExpansion(qP1, qIncUSDT) :
                     Equal(q, qP2, FALSE))
        /\ (qP1 = qP2 /\ qIncUSDT => rRelatable)

\* a crypto/fiat pair related to another pair only through the fiat expansion
C10_Witness ==
    /\ qpc = "isrelatable"
    /\ qP1 = NewCurrencyPair("BTC", "USD")
    /\ qP2 = NewCurrencyPair("AUD", "XBT")
    /\ rRelatable
    /\ ~Contains(GetRelatableCurrencies(qP1, TRUE, qIncUSDT), qP2, FALSE)

(***************************************************************************)
(* Claims about the websocket goroutines (checked under SpecWS, the        *)
(* temporal one under LiveSpecWS)                                          *)
(***************************************************************************)

\* the Go scheduler runs every goroutine that can take a step, and a select with
\* the closed shutdown channel among its ready cases takes that case eventually
WsFairness ==
    /\ \A e \in Websockets :
         /\ WF_vars(HandlerStart(e))
         /\ WF_vars(HandlerReturn(e))
         /\ WF_vars(DiversionStart(e))
         /\ WF_vars(DiversionReturn(e))
    /\ \A i \in RIds :
         /\ WF_vars(ReconnectShutdown(i))
         /\ WF_vars(ReconnectRegister(i))
         /\ WF_vars(ReconnectSignal(i))
    /\ WF_vars(WaiterClose)
    /\ WF_vars(WaiterWait)
    /\ WF_vars(WaiterSend)

LiveSpecWS == SpecWS /\ WsFairness

\* C4: after Websocketshutdown has broadcast the shutdown signal, every running
\* WebsocketDataHandler loop, streamDiversion loop and WebsocketReconnect loop of
\* every exchange eventually returns, whichever websocket was passed.
C4_LoopsReturnAfterBroadcast ==
    /\ \A e \in Websockets :
         /\ (shutdowner = "closed" /\ hpc[e] = "loop") ~> (hpc[e] = "done")
         /\ (shutdowner = "closed" /\ dpc[e] = "loop") ~> (dpc[e] = "done")
    /\ \A i \in RIds :
         (shutdowner = "closed" /\ i <= Len(rtasks) /\ rtasks[i].pc = "loop")
             ~> (i <= Len(rtasks) /\ rtasks[i].pc = "done")

\* the websocket of A was passed; the loops of B and a reconnect loop have returned
C4_Witness ==
    /\ shutdowner = "closed"
    /\ swho = "A"
    /\ hpc["B"] = "done"
    /\ dpc["B"] = "done"
    /\ \E i \in 1..Len(rtasks) : rtasks[i].ws = "B" /\ rtasks[i].end = "signal"

\* C5: Websocketshutdown returns nil only if the shared counter reached zero, so
\* that wg.Wait() returned and c was sent, before the timer fired; when the timer
\* fires first it returns the error.
C5_NilOnlyAfterZero ==
    /\ spc = "retNil" => (waitSaw = 0 /\ wpc = "done" /\ shutdowner = "closed")
    /\ (spc = "select" /\ wpc # "done") => chanC = 0
    /\ (spc = "retErr" /\ wpc # "done") => chanC = 0

\* nil is returned after registered loops have reported completion
C5_Witness ==
    /\ spc = "retNil"
    /\ hpc["A"] = "done"
    /\ dpc["A"] = "done"
    /\ \E i \in 1..Len(rtasks) : rtasks[i].end = "signal"

\* C6 (as stated): a reconnect task ends only when a Connect attempt succeeds or
\* the shutdown signal is observed, never for any other reason.
C6_EndsOnlyOnConnectOrSignal ==
    \A i \in 1..Len(rtasks) :
        rtasks[i].pc = "done" => rtasks[i].end \in {"connected", "signal"}

\* C6 (amended): a reconnect task ends only when its initial ws.Shutdown() fails
\* (before any Connect attempt), when a Connect attempt succeeds, or when the
\* shutdown signal is observed; a failed Connect attempt never ends it.
C6_EndsOnShutdownFailureConnectOrSignal ==
    \A i \in 1..Len(rtasks) :
        /\ rtasks[i].pc = "done" =>
             rtasks[i].end \in {"shutdownFailed", "connected", "signal"}
        /\ rtasks[i].end = "shutdownFailed" => ~rtasks[i].tried
        /\ rtasks[i].end = "signal" => shutdowner = "closed"
        /\ rtasks[i].pc # "done" => rtasks[i].end = ""

\* a task whose Connect failed, kept trying and then connected
C6_Witness ==
    \E i \in 1..Len(rtasks) :
        rtasks[i].pc = "done" /\ rtasks[i].tried /\ rtasks[i].end = "connected"

TasksOf(l) == {t \in tasks : t.loop = l}

\* C1: in both routines no task of iteration n+1 is launched while a task launched
\* in iteration n is still running: the loop stays at the barrier until every
\* launched task has completed; tasks of one iteration complete in any order.
C1_BarrierSeparatesIterations ==
    \A l \in Loops :
        /\ \A t \in TasksOf(l) : t.it = iter[l]
        /\ lpc[l] \in {"sleep", "add"} => TasksOf(l) = {}

\* both loops are in their second iteration at the barrier; in one the second task
\* has returned before the first, in the other the first before the second
C1_Witness ==
    /\ iter["ticker"] = 2 /\ lpc["ticker"] = "wait"
    /\ iter["orderbook"] = 2 /\ lpc["orderbook"] = "wait"
    /\ \E t \in TasksOf("ticker") : t.x = 1 /\ t.pc = "fetch"
    /\ ~\E t \in TasksOf("ticker") : t.x = 2
    /\ \E t \in TasksOf("orderbook") : t.x = 2 /\ t.pc = "fetch"
    /\ ~\E t \in TasksOf("orderbook") : t.x = 1

\* what the current iteration's log of loop l holds for exchange e
EventsOf(l, e) == {v \in log[l] : v.ex = e}

\* every exchange call of e in the current iteration returned an error
AllFailed(l, e) ==
    /\ \E v \in EventsOf(l, e) : v.kind = "live_err"
    /\ \A v \in EventsOf(l, e) : v.kind \notin {"live_ok", "hit"}

\* every enabled pair of exchange record x was fetched live with success
AllSucceeded(l, x) ==
    \A i \in 1..Len(x.pairs) :
        [ex |-> x.name, p |-> x.pairs[i], kind |-> "live_ok", ver |-> iter[l]] \in log[l]

\* C2: when in one iteration the fetch of exchange A returns an error and the fetch
\* of exchange B succeeds, the iteration completes with B's result written to the
\* store and staged (and relayed when the websocket server is enabled) and with
\* nothing written, staged or relayed for A; the loop then goes on.
C2_FailureIsIsolated ==
    \A l \in Loops :
        lpc[l] = "sleep" =>
            /\ \A e \in ExchangeNames :
                 AllFailed(l, e) =>
                     /\ \A v \in EventsOf(l, e) : v.kind \notin {"stage", "relay"}
                     /\ \A p \in PairNames : cache[l][e][p] # iter[l]
            /\ \A v \in log[l] :
                 (v.kind = "live_err" /\
                  ~\E w \in log[l] : w.ex = v.ex /\ w.p = v.p /\ w.kind \in {"live_ok", "hit"})
                     => ~\E w \in log[l] : w.ex = v.ex /\ w.p = v.p /\ w.kind \in {"stage", "relay"}
            /\ \A i \in 1..Len(exchanges) :
                 (~Skips(exchanges[i]) /\ AllSucceeded(l, exchanges[i])) =>
                     \A j \in 1..Len(exchanges[i].pairs) :
                        LET b == exchanges[i].name
                            p == exchanges[i].pairs[j]
                        IN  /\ cache[l][b][p] = iter[l]
                            /\ [ex |-> b, p |-> p, kind |-> "stage", ver |-> iter[l]] \in log[l]
                            /\ wsServer <=>
                                 [ex |-> b, p |-> p, kind |-> "relay", ver |-> iter[l]] \in log[l]
            /\ TasksOf(l) = {}
            /\ ENABLED LoopSleep(l)

\* a second ticker iteration has completed in which B failed and D succeeded: the
\* store still holds what the first iteration wrote for B
C2_Witness ==
    /\ exchanges = <<ExB, ExD>>
    /\ wsServer
    /\ lpc["ticker"] = "sleep" /\ iter["ticker"] = 2
    /\ AllFailed("ticker", "B")
    /\ AllSucceeded("ticker", ExD)
    /\ cache["ticker"]["B"]["BTCUSD"] = 1
    /\ cache["ticker"]["D"]["LTCUSD"] = 2

\* the goroutine of loop l for registry index x takes its next step; every exchange
\* call returns
TaskStep(l, x) ==
    \E t \in tasks :
        /\ t.loop = l /\ t.x = x
        /\ TaskStart(t) \/ TaskFetch(t) \/ TaskStage(t) \/ TaskRelay(t) \/ TaskExit(t)

LoopStep(l) == LoopAdd(l) \/ LoopLaunch(l) \/ LoopWait(l) \/ LoopSleep(l)

\* the length of the longest registry of RegistryChoices
MaxExchanges ==
    CHOOSE n \in {Len(r) : r \in RegistryChoices} :
        \A r \in RegistryChoices : Len(r) <= n

LiveSpec ==
    /\ Spec
    /\ \A l \in Loops : WF_vars(LoopStep(l))
    /\ \A l \in Loops : \A x \in 1..MaxExchanges : WF_vars(TaskStep(l, x))

\* the barrier's counter equals the number of tasks that have still to report
BarrierCounts(l) ==
    wgc[l] = Cardinality(TasksOf(l)) +
             (IF lpc[l] = "range" THEN Len(exchanges) - lx[l] + 1 ELSE 0)

\* C3: provided every exchange call returns, each loop keeps starting iterations:
\* every launched task reports to the barrier exactly once on every path (skip,
\* success, failure), the barrier releases, and after the sleep the next iteration
\* starts; the loop never terminates (here: up to the MaxIter iterations modelled).
C3_LoopsKeepIterating ==
    /\ [](\A l \in Loops : BarrierCounts(l))
    /\ <>(\A l \in Loops : iter[l] = MaxIter /\ lpc[l] = "add")

\* both loops have been through all their iterations with a task that skipped
C3_Witness ==
    /\ exchanges = <<ExA, ExC>>
    /\ \A l \in Loops : iter[l] = MaxIter /\ lpc[l] = "add"
    /\ \E v \in log["ticker"] : v.kind = "live_err"
    /\ \E v \in log["ticker"] : v.kind = "live_ok"

\* the registry entry of a name
EntryOf(name) == exchanges[CHOOSE x \in 1..Len(exchanges) : exchanges[x].name = name]

\* C18: a polling task performs no fetch, store write or relay for an exchange
\* that is nil, that is disabled, or that does not support REST; it only
\* reports completion to the barrier.
C18_SkippedExchangesUntouched ==
    \A l \in Loops :
        /\ \A v \in log[l] :
               LET e == EntryOf(v.ex) IN ~e.nil /\ e.enabled /\ e.rest
        /\ \A x \in 1..Len(exchanges) :
               (exchanges[x].nil \/ ~exchanges[x].enabled \/ ~exchanges[x].rest) =>
                   /\ ~exchanges[x].nil =>
                          \A p \in PairNames : cache[l][exchanges[x].name][p] = 0
                   /\ \A t \in TasksOf(l) : t.x = x => t.pc \notin {"stage", "relay"}
        /\ BarrierCounts(l)

\* the exchange events of the current ticker iteration that went to the network
LiveEvents(e) == {v \in EventsOf("ticker", e) : v.kind \in {"live_ok", "live_err"}}

\* C19: for an exchange with REST ticker batching, within one iteration the
\* live update is performed only for the first pair fetched; every later pair
\* is served from the store and causes no further live fetch.
C19_OneLiveFetchPerBatch ==
    \A x \in 1..Len(exchanges) :
        (~Skips(exchanges[x]) /\ exchanges[x].batching) =>
            \A v \in LiveEvents(exchanges[x].name) : v.p = exchanges[x].pairs[1]

\* the events of pair p of exchange e in the current iteration of loop l
PairEvents(l, e, p, kinds) == {v \in log[l] : v.ex = e /\ v.p = p /\ v.kind \in kinds}

\* pair p of exchange e has been dealt with completely in loop l
PairFinished(l, e, p) ==
    PairEvents(l, e, p, {"live_ok", "hit"}) # {} =>
        /\ PairEvents(l, e, p, {"stage"}) # {}
        /\ wsServer => PairEvents(l, e, p, {"relay"}) # {}

\* C20: within one exchange's task a pair's result is staged and relayed only
\* after its fetch returned success and its value is in the store, it is
\* relayed only when the websocket server is enabled, and the fetch of the
\* next pair does not start before the current pair's relay has finished.
C20_SequentialPerPair ==
    \A l \in Loops :
        /\ \A v \in log[l] :
               v.kind \in {"stage", "relay"} =>
                   /\ \E w \in PairEvents(l, v.ex, v.p, {"live_ok", "hit"}) : w.ver = v.ver
                   /\ cache[l][v.ex][v.p] # 0
        /\ \A v \in log[l] :
               v.kind = "relay" => (wsServer /\ PairEvents(l, v.ex, v.p, {"stage"}) # {})
        /\ \A t \in TasksOf(l) :
               LET e == exchanges[t.x]
               IN  /\ t.pc \in {"stage", "relay"} =>
                          PairEvents(l, e.name, e.pairs[t.z], {"live_ok", "hit"}) # {}
                   /\ t.pc = "relay" =>
                          (wsServer /\ PairEvents(l, e.name, e.pairs[t.z], {"stage"}) # {})
                   /\ (t.pc = "fetch" /\ t.z > 1) => PairFinished(l, e.name, e.pairs[t.z - 1])
        /\ \A x \in 1..Len(exchanges) :
               \A z \in 2..Len(exchanges[x].pairs) :
                   PairEvents(l, exchanges[x].name, exchanges[x].pairs[z],
                              {"live_ok", "live_err", "hit"}) # {}
                       => PairFinished(l, exchanges[x].name, exchanges[x].pairs[z - 1])

\* the second pair of A is being fetched after the first was stored, staged and
\* relayed
C20_Witness ==
    /\ exchanges = <<ExA, ExC>>
    /\ wsServer
    /\ \E t \in TasksOf("orderbook") : t.x = 1 /\ t.z = 2 /\ t.pc = "fetch"
    /\ PairEvents("orderbook", "A", "BTCUSD", {"relay"}) # {}
    /\ cache["orderbook"]["A"]["BTCUSD"] = iter["orderbook"]

\* C29: IsRelatablePairs is symmetric: for all pairs p1, p2 and both values of
\* includeUSDT, IsRelatablePairs(p1, p2, includeUSDT) equals
\* IsRelatablePairs(p2, p1, includeUSDT).
C29_IsRelatableSymmetric ==
    qpc = "isrelatable" => rRelatable = IsRelatablePairs(qP2, qP1, qIncUSDT)

\* C29 as amended: the two orders of the arguments agree whenever neither pair
\* is a crypto/fiat pair (no fiat expansion takes place) and, with includeUSDT
\* false, neither pair contains USDT.
C29_SymmetricWithoutExpansion ==
    (/\ qpc = "isrelatable"
     /\ ~IsCryptoFiatPair(qP1) /\ ~IsCryptoFiatPair(qP2)
     /\ qIncUSDT \/ (~ContainsCurrency(qP1, "USDT") /\ ~ContainsCurrency(qP2, "USDT")))
        => rRelatable = IsRelatablePairs(qP2, qP1, qIncUSDT)

\* two different pairs related through both translations, found relatable
C29_Witness ==
    /\ qpc = "isrelatable"
    /\ qIncUSDT
    /\ qP1 = NewCurrencyPair("BTC", "USDT")
    /\ qP2 = NewCurrencyPair("XBT", "USD")
    /\ rRelatable

\* the (exchange, currency) combinations that occur in the data
Reported(data) ==
    UNION {{<<data[x].Exchange, n>> : n \in NamesIn(CurrenciesOf(data[x]))} : x \in 1..Len(data)}

\* C30: SeedExchangeAccountInfo changes only exchange ledger entries of
\* (exchange, currency) combinations that occur in the data: every other
\* address keeps its presence and balance, and a call with empty data changes
\* nothing.
C30_OnlyReportedEntriesChange ==
    apc = "seeded" =>
        /\ \A a \in ledger0 \cup ledger :
               (<<a.Address, a.CoinType>> \notin Reported(aData) \/ a.Description # "Exchange")
                   => (a \in ledger0 /\ a \in ledger)
        /\ aData = <<>> => ledger = ledger0

\* entries of the data were changed while a personal address, the entry of
\* another exchange and the entry of a currency A did not report stayed
C30_Witness ==
    /\ apc = "seeded"
    /\ ledger # ledger0
    /\ OtherAddresses \subseteq ledger
    /\ <<"A", "USD">> \notin Reported(aData)
    /\ Address("A", "USD", 1) \in ledger
    /\ Address("A", "BTC", 3) \in ledger0 /\ ~ExchangeAddressExists(ledger, "A", "BTC")

\* C28: in a polling iteration a ticker of a batch-supporting exchange is
\* staged or relayed only if a live update for that exchange succeeded in the
\* same iteration; when the live update fails, no ticker stored earlier is
\* relayed as an update for any pair of that exchange.
C28_NoStaleBatchTicker ==
    \A x \in 1..Len(exchanges) :
        (~Skips(exchanges[x]) /\ exchanges[x].batching) =>
            \A v \in EventsOf("ticker", exchanges[x].name) :
                v.kind \in {"stage", "relay"} =>
                    /\ \E w \in EventsOf("ticker", exchanges[x].name) : w.kind = "live_ok"
                    /\ v.ver = iter["ticker"]

\* the polling loops where every call but a hung one returns
LiveSpecHang ==
    /\ SpecHang
    /\ \A l \in Loops : WF_vars(LoopStep(l))
    /\ \A l \in Loops : \A x \in 1..MaxExchanges : WF_vars(TaskStep(l, x))

\* the tasks of loop l whose exchange call hangs
HungIn(l) == {t \in TasksOf(l) : t.pc = "hung"}

\* C22: if one exchange's fetch call never returns, the sibling tasks of the
\* iteration still run to completion, and the other polling loop keeps
\* starting iterations (a loop waits for nothing but its own tasks); only the
\* loop with the hung task is kept from its next iteration.
C22_HungTaskBlocksOnlyItsLoop ==
    /\ [](\A l \in Loops : \A t \in HungIn(l) :
             t.it = iter[l] /\ lpc[l] \in {"range", "wait"} /\ wgc[l] > 0)
    /\ [](\A l \in Loops :
             (lpc[l] = "wait" /\ TasksOf(l) = {}) => ENABLED LoopStep(l))
    /\ <>[](\A l \in Loops :
               IF HungIn(l) # {}
               THEN lpc[l] = "wait" /\ TasksOf(l) = HungIn(l)
               ELSE iter[l] = MaxIter /\ lpc[l] = "add" /\ TasksOf(l) = {})

\* the ticker call of B hangs in the first iteration; its sibling D has
\* written its result and returned, and the orderbook loop has been through
\* all its iterations
C22_Witness ==
    /\ exchanges = <<ExB, ExD>>
    /\ \E t \in HungIn("ticker") : t.x = 1 /\ t.it = 1
    /\ TasksOf("ticker") = HungIn("ticker")
    /\ lpc["ticker"] = "wait"
    /\ cache["ticker"]["D"]["LTCUSD"] = 1
    /\ iter["orderbook"] = MaxIter /\ lpc["orderbook"] = "add"

\* C21: each polling iteration works on one snapshot of the exchange registry:
\* when an exchange is loaded or unloaded while an iteration is being launched
\* or is running, the number of tasks launched still equals the count the
\* barrier was armed with, and every task accesses a registry entry that exists.
C21_IterationWorksOnSnapshot ==
    /\ \A t \in tasks : t.pc # "panic"
    /\ lpc["ticker"] \in {"wait", "sleep"} =>
         wgc["ticker"] = Cardinality(TasksOf("ticker"))

\* C25: when Websocketshutdown returns nil, no WebsocketDataHandler,
\* streamDiversion or WebsocketReconnect goroutine is still running its loop or
\* has yet to start it, goroutines that were spawned before the return and had
\* not registered with the shared counter when the wait began included.
C25_NoGoroutineLeftAtNilReturn ==
    [][(spc = "select" /\ spc' = "retNil") =>
          /\ \A e \in Websockets : hpc'[e] \notin {"spawned", "loop"}
          /\ \A e \in Websockets : dpc'[e] \notin {"spawned", "loop"}
          /\ \A i \in 1..Len(rtasks') : ~InProgress(rtasks'[i])]_vars

\* the reconnect tasks of websocket e that have not returned
ActiveReconnects(e) ==
    {i \in 1..Len(rtasks) : rtasks[i].ws = e /\ InProgress(rtasks[i])}

\* C26: at any time at most one reconnect task is active per websocket: a further
\* close-1006 error that arrives while a reconnect of the same websocket is in
\* progress does not start a second concurrent reconnect.
C26_OneReconnectPerWebsocket ==
    \A e \in Websockets : Cardinality(ActiveReconnects(e)) <= 1

\* C23: reconnection uses bounded retry: a reconnect task in its retry loop
\* reaches a terminal state, after which it makes no further Connect attempt,
\* even when every Connect attempt fails and no shutdown is signalled.
C23_ReconnectRetryIsBounded ==
    \A i \in 1..MaxReconnects :
        [](i <= Len(rtasks) /\ rtasks[i].pc = "loop"
             => <>(i <= Len(rtasks) /\ rtasks[i].pc = "done"))

\* C27: Websocketshutdown may be invoked more than once: an invocation after the
\* first never faults on the shutdown signal that was already broadcast.
C27_RepeatedShutdownNeverFaults == wpc # "panic"

\* C24: after Config.CheckPairConsistency(exchange) returns nil, for every asset
\* type of that exchange whose available-pair list is non-empty, the
\* enabled-pair list is non-empty and every enabled pair is contained (strict
\* order) in the available-pair list.
C24_EnabledPairsAreAvailable ==
    (cpc = "checked" /\ ~rMap.err) =>
        \A x \in 1..Len(GetExchangeAssetTypes(cfgExchanges, rMap.name).val) :
            LET a == GetExchangeAssetTypes(cfgExchanges, rMap.name).val[x]
                enabledPairs == GetPairsOfAsset(cfgExchanges, rMap.name, a, TRUE).val
                availPairs == GetPairsOfAsset(cfgExchanges, rMap.name, a, FALSE).val
            IN  Len(availPairs) > 0 =>
                    /\ Len(enabledPairs) > 0
                    /\ \A i \in 1..Len(enabledPairs) :
                          Contains(availPairs, enabledPairs[i], TRUE)

====
